---- MODULE Spec2Model ----
(***************************************************************************)
(* A model of mongotron's Document entity (src/mongotron/Document.py):     *)
(* the attribute map, the dirty set, the pending operations, the           *)
(* change-tracking list wrapper and the save / delete protocol against a   *)
(* document store.                                                         *)
(*                                                                         *)
(* The entity types modelled are the Counter/Doc type of the specification *)
(* and of src/test.py: fields _id, name, seq and events, with name stored  *)
(* under the short name "n" and name required, and a subtype of it that    *)
(* declares default values (cls = "Defaulted").  alive tells whether the   *)
(* instance still exists; fcheck is the subject and the result of the pure *)
(* function under study (the conversions, make, validate and parse of      *)
(* src/mongotron/field_types.py, the type declaration of DocumentMeta);    *)
(* heap holds the mutable default values and the containers handed to the  *)
(* instances built from them; other is a second instance of the entity     *)
(* type, the one the caller is not acting on.  shared is the dictionary    *)
(* Document.inverse_field_map, which every entity type reads and every     *)
(* constructor writes, and population the instances of the several entity  *)
(* types that use it; generator is the sequence collection of              *)
(* src/mongotron/SequenceGenerator.py with the calls in progress.          *)
(*                                                                         *)
(* Document.__setattr__ is taken to store the four name-mangled internal   *)
(* fields (its __internalfields branch, lines 345-346), so that instances  *)
(* can be constructed.                                                     *)
(***************************************************************************)
EXTENDS Integers, Sequences, FiniteSets, TLC

VARIABLES attributes, dirty_fields, ops, db, nextOid, wrappers, hist, last,
          cls, alive, fcheck, heap, other, shared, population, generator

vars == <<attributes, dirty_fields, ops, db, nextOid, wrappers, hist, last,
          cls, alive, fcheck, heap, other, shared, population, generator>>

aux == <<heap, other, shared, population, generator>>

(***************************************************************************)
(* Bounds of the model.                                                    *)
(***************************************************************************)
MaxHist == 3        \* mutation calls between two clearings of the pending state
MaxOid == 1         \* ObjectId() values generated
MaxLen == 2         \* length of a list value
MaxInstances == 2   \* instances built from one default table
MaxObjects == 9     \* container objects on the heap
MaxCalls == 3       \* calls of get_next_index

(***************************************************************************)
(* Values.  Every Python value is a record of one shape, tagged by kind.   *)
(***************************************************************************)
None == [kind |-> "none", n |-> 0, s |-> "", items |-> <<>>]
Num(n) == [kind |-> "num", n |-> n, s |-> "", items |-> <<>>]
Text(s) == [kind |-> "text", n |-> 0, s |-> s, items |-> <<>>]
List(xs) == [kind |-> "list", n |-> 0, s |-> "", items |-> xs]
Each(xs) == [kind |-> "each", n |-> 0, s |-> "", items |-> xs]
ObjectId(n) == [kind |-> "oid", n |-> n, s |-> "", items |-> <<>>]

EmptyMap == [x \in {} |-> x]
Put(m, k, v) == [x \in DOMAIN m \cup {k} |-> IF x = k THEN v ELSE m[x]]
Del(m, k) == [x \in DOMAIN m \ {k} |-> m[x]]

(***************************************************************************)
(* The entity type.                                                        *)
(***************************************************************************)
structure == [_id |-> "oid", name |-> "text", seq |-> "num", events |-> "list"]
required == {"name"}
field_map == [name |-> "n"]
inverse_field_map == [n |-> "name"]

long_to_short(long_key) ==
    IF long_key \in DOMAIN field_map THEN field_map[long_key] ELSE long_key

short_to_long(short_key) ==
    IF short_key \in DOMAIN inverse_field_map THEN inverse_field_map[short_key]
    ELSE short_key

Self == [attributes |-> attributes, dirty_fields |-> dirty_fields, ops |-> ops]

Ok(self) == [self |-> self, err |-> ""]
Raise(self, e) == [self |-> self, err |-> e]

has_id(self) == "_id" \in DOMAIN self.attributes

clear_ops_keeping_dirty(self) == [self EXCEPT !.ops = EmptyMap]

clear_ops(self) == [self EXCEPT !.ops = EmptyMap, !.dirty_fields = {}]

mark_dirty(self, key) == [self EXCEPT !.dirty_fields = @ \cup {key}]

(***************************************************************************)
(* Document.add_operation: enqueue operator op on key with operand val.    *)
(* Operands are numbers or lists of numbers; a list operand extends the    *)
(* per-key operand list and any other operand is appended to it.           *)
(***************************************************************************)
extend(param_list, val) ==
    IF val.kind = "list" THEN param_list \o val.items
    ELSE Append(param_list, val.n)

add_operation_overwriting(self, op, key, val) ==
    IF key \notin DOMAIN structure THEN Raise(self, "KeyError")
    ELSE IF op = "$set"
         THEN Raise([self EXCEPT !.ops = IF op \in DOMAIN self.ops THEN self.ops
                                         ELSE Put(self.ops, op, EmptyMap)],
                    "ValueError")
    ELSE Ok([self EXCEPT !.ops =
               Put(self.ops, op,
                   Put(IF op \in DOMAIN self.ops THEN self.ops[op] ELSE EmptyMap,
                       long_to_short(key),
                       IF op = "$addToSet" THEN Each(extend(<<>>, val))
                       ELSE List(extend(<<>>, val))))])

add_operation(self, op, key, val) ==
    IF key \notin DOMAIN structure THEN Raise(self, "KeyError")
    ELSE
      LET k == long_to_short(key)
          ops1 == IF op \in DOMAIN self.ops THEN self.ops
                  ELSE Put(self.ops, op, EmptyMap)
          op_dict == ops1[op]
      IN  IF op = "$set" THEN Raise([self EXCEPT !.ops = ops1], "ValueError")
          ELSE IF op = "$addToSet" THEN
            LET param_list == IF k \in DOMAIN op_dict THEN op_dict[k].items
                              ELSE <<>>
            IN  Ok([self EXCEPT !.ops =
                      Put(ops1, op, Put(op_dict, k, Each(extend(param_list, val))))])
          ELSE
            LET param_list == IF k \in DOMAIN op_dict THEN op_dict[k].items
                              ELSE <<>>
            IN  Ok([self EXCEPT !.ops =
                      Put(ops1, op, Put(op_dict, k, List(extend(param_list, val))))])

(***************************************************************************)
(* Document.operations: the $set of the dirty fields merged over the       *)
(* pending operations.  A dirty field without a value is a KeyError.       *)
(***************************************************************************)
operations(self) ==
    IF \E key \in self.dirty_fields : key \notin DOMAIN self.attributes
    THEN [err |-> "KeyError", doc |-> EmptyMap]
    ELSE
      LET fields == [sk \in {long_to_short(key) : key \in self.dirty_fields} |->
                       self.attributes[CHOOSE key \in self.dirty_fields :
                                          long_to_short(key) = sk]]
      IN  [err |-> "",
           doc |-> [o \in DOMAIN self.ops \cup {"$set"} |->
                      IF o = "$set" THEN fields ELSE self.ops[o]]]

(***************************************************************************)
(* Document.unset, set, inc, dec.                                          *)
(***************************************************************************)
unset(self, key) ==
    LET r == add_operation(self, "$unset", key, Num(1))
    IN  IF r.err # "" THEN r
        ELSE IF key \notin DOMAIN r.self.attributes THEN Raise(r.self, "KeyError")
        ELSE Ok([r.self EXCEPT !.attributes = Del(@, key)])

set(self, key, value) ==
    IF value = None THEN unset(self, key)
    ELSE Ok([self EXCEPT !.dirty_fields = @ \cup {key},
                         !.attributes = Put(@, key, value)])

abs(n) == IF n < 0 THEN -n ELSE n

\* Document.addToSet, pull, push
addToSet(self, key, value) == add_operation(self, "$addToSet", key, value)

pull(self, key, value) == add_operation(self, "$pullAll", key, value)

push(self, key, value) == add_operation(self, "$pushAll", key, value)

inc(self, key, value) == add_operation(self, "$inc", key, Num(value))

dec(self, key, value) == add_operation(self, "$inc", key, Num(-abs(value)))

(***************************************************************************)
(* Document.__setattr__: attribute assignment.  key_in_structure raises    *)
(* for a name outside the schema; the value must be an instance of the     *)
(* declared type, a list of numbers for the list field.                    *)
(***************************************************************************)
isinstance(value, value_type) == value.kind = value_type

setattr(self, key, value) ==
    IF key \notin DOMAIN structure THEN Raise(self, "AttributeError")
    ELSE IF ~isinstance(value, structure[key]) THEN Raise(self, "ValueError")
    ELSE set(self, key, value)

(***************************************************************************)
(* Document.__getattr__: the value read for key.  A list value is handed   *)
(* out as a new ChangeTrackingList built from the stored items; a list     *)
(* field without a value reads as a new empty ChangeTrackingList.          *)
(***************************************************************************)
getattr(self, key) ==
    IF key \notin DOMAIN structure THEN [err |-> "AttributeError", val |-> None]
    ELSE IF key \notin DOMAIN self.attributes
         THEN [err |-> "",
               val |-> IF structure[key] = "list" THEN List(<<>>) ELSE None]
         ELSE [err |-> "", val |-> self.attributes[key]]

ChangeTrackingList(list_items, name) == [name |-> name, items |-> list_items]

(***************************************************************************)
(* ChangeTrackingList.append and pop: notify the parent, then change the   *)
(* wrapper's own list.  The wrapper holds a weakref.proxy of its parent    *)
(* and notifies it if hasattr(parent, '_mark_as_changed'); hasattr answers *)
(* False when the attribute lookup raises, which it does on the proxy of a *)
(* parent that no longer exists.                                           *)
(***************************************************************************)
_mark_as_changed(self, key) == mark_dirty(self, key)

hasattr_mark_as_changed == alive

notify(self, w) ==
    IF hasattr_mark_as_changed THEN _mark_as_changed(self, w.name) ELSE self

wrapper_append(self, w, x) ==
    [self |-> notify(self, w),
     w |-> [w EXCEPT !.items = Append(@, x)]]

wrapper_pop(self, w) ==
    IF w.items = <<>> THEN [self |-> notify(self, w), w |-> w, err |-> "IndexError"]
    ELSE [self |-> notify(self, w),
          w |-> [w EXCEPT !.items = SubSeq(@, 1, Len(@) - 1)],
          err |-> ""]

(***************************************************************************)
(* The store's find_and_modify(query, update, upsert=True, new=True) on    *)
(* the collection dbv, a map from identity number to storage document.     *)
(* The store rejects an update that names one field under two operators,   *)
(* whose $inc operand is not a number or that removes or increments _id,   *)
(* and the round trip can fail for reasons of its own (store_ok = FALSE).  *)
(***************************************************************************)
operand_fields(update, o) == IF o \in DOMAIN update THEN DOMAIN update[o] ELSE {}

rejected(update) ==
    \/ \E o1, o2 \in DOMAIN update :
          o1 # o2 /\ DOMAIN update[o1] \cap DOMAIN update[o2] # {}
    \/ \E k \in operand_fields(update, "$inc") : update["$inc"][k].kind # "num"
    \/ "_id" \in operand_fields(update, "$unset") \cup operand_fields(update, "$inc")

\* $addToSet with $each: every operand the array does not hold yet is appended
RECURSIVE add_each(_, _)
add_each(items, operand) ==
    IF operand = <<>> THEN items
    ELSE add_each(IF \E i \in DOMAIN items : items[i] = Head(operand) THEN items
                  ELSE Append(items, Head(operand)),
                  Tail(operand))

\* $pullAll: every element equal to an operand is removed
RECURSIVE pull_all(_, _)
pull_all(items, operand) ==
    IF items = <<>> THEN <<>>
    ELSE (IF \E i \in DOMAIN operand : operand[i] = Head(items) THEN <<>>
          ELSE <<Head(items)>>) \o pull_all(Tail(items), operand)

apply_update(doc, update) ==
    LET set_f == operand_fields(update, "$set")
        unset_f == operand_fields(update, "$unset")
        inc_f == operand_fields(update, "$inc")
        add_f == operand_fields(update, "$addToSet")
        push_f == operand_fields(update, "$pushAll")
        pull_f == operand_fields(update, "$pullAll") \cap DOMAIN doc
        array(k) == IF k \in DOMAIN doc THEN doc[k].items ELSE <<>>
    IN  [k \in (DOMAIN doc \cup set_f \cup inc_f \cup add_f \cup push_f) \ unset_f |->
           IF k \in set_f THEN update["$set"][k]
           ELSE IF k \in inc_f
                THEN Num((IF k \in DOMAIN doc THEN doc[k].n ELSE 0) + update["$inc"][k].n)
           ELSE IF k \in add_f THEN List(add_each(array(k), update["$addToSet"][k].items))
           ELSE IF k \in push_f THEN List(array(k) \o update["$pushAll"][k].items)
           ELSE IF k \in pull_f THEN List(pull_all(array(k), update["$pullAll"][k].items))
           ELSE doc[k]]

find_and_modify(dbv, query, update, store_ok) ==
    IF ~store_ok \/ rejected(update)
    THEN [err |-> "OperationFailure", db |-> dbv, res |-> EmptyMap]
    ELSE LET old == IF query.n \in DOMAIN dbv THEN dbv[query.n]
                    ELSE [x \in {"_id"} |-> query]
             new == apply_update(old, update)
         IN  [err |-> "", db |-> Put(dbv, query.n, new), res |-> new]

(***************************************************************************)
(* Document.load_attr_dict / load_defaults_for_keys / load_dict: reset     *)
(* attributes and load the storage document, converting each value to the  *)
(* declared type, then set the default of every default key the document   *)
(* did not hold.                                                           *)
(***************************************************************************)
default_values ==
    IF cls = "Defaulted" THEN [seq |-> Num(0), events |-> List(<<>>)] ELSE EmptyMap

RECURSIVE join(_)
join(xs) ==
    IF xs = <<>> THEN ""
    ELSE IF Len(xs) = 1 THEN ToString(xs[1])
    ELSE ToString(xs[1]) \o ", " \o join(Tail(xs))

convert(value_type, v) ==
    IF value_type = "list"
    THEN IF v.kind = "list" THEN [err |-> "", val |-> v]
         ELSE [err |-> "ValueError", val |-> None]
    ELSE IF value_type = v.kind THEN [err |-> "", val |-> v]
    ELSE IF value_type = "text"
         THEN IF v.kind = "num" THEN [err |-> "", val |-> Text(ToString(v.n))]
              ELSE IF v.kind = "list"
                   THEN [err |-> "", val |-> Text("[" \o join(v.items) \o "]")]
                   ELSE [err |-> "", val |-> Text("ObjectId")]
    ELSE IF value_type = "num"
         THEN IF v.kind = "text" THEN [err |-> "ValueError", val |-> None]
              ELSE [err |-> "TypeError", val |-> None]
    ELSE IF v.kind = "text" THEN [err |-> "InvalidId", val |-> None]
         ELSE [err |-> "TypeError", val |-> None]

load_attr_dict_schema_only(self, doc) ==
    LET long(k) == short_to_long(k)
        conv(k) == convert(structure[long(k)], doc[k])
        known == {k \in DOMAIN doc : long(k) \in DOMAIN structure}
        bad == {k \in known : conv(k).err # ""}
        good == known \ bad
        attrs == [lk \in {long(k) : k \in good} |->
                    conv(CHOOSE k \in good : long(k) = lk).val]
    IN  [self |-> [self EXCEPT !.attributes = attrs],
         err |-> IF bad = {} THEN "" ELSE conv(CHOOSE k \in bad : TRUE).err]

load_attr_dict(self, doc) ==
    LET long(k) == short_to_long(k)
        conv(k) == IF long(k) \in DOMAIN structure
                   THEN convert(structure[long(k)], doc[k])
                   ELSE [err |-> "", val |-> doc[k]]
        bad == {k \in DOMAIN doc : conv(k).err # ""}
        good == DOMAIN doc \ bad
        attrs == [lk \in {long(k) : k \in good} |->
                    conv(CHOOSE k \in good : long(k) = lk).val]
    IN  [self |-> [self EXCEPT !.attributes = attrs],
         err |-> IF bad = {} THEN "" ELSE conv(CHOOSE k \in bad : TRUE).err]

load_defaults_unmarked(self, default_keys) ==
    [self EXCEPT !.attributes =
       [k \in DOMAIN @ \cup default_keys |->
          IF k \in default_keys THEN default_values[k] ELSE @[k]]]

\* for dk in default_keys: self.set(dk, new_value), new_value a copy of the
\* default: set stores a value that is not None and marks the key dirty
load_defaults_for_keys(self, default_keys) ==
    [self EXCEPT !.attributes =
                    [k \in DOMAIN @ \cup default_keys |->
                       IF k \in default_keys THEN default_values[k] ELSE @[k]],
                 !.dirty_fields = @ \cup default_keys]

\* the defaults are set when load_attr_dict has not raised
then_load_defaults(ld, default_keys) ==
    IF ld.err # "" THEN ld
    ELSE Ok(load_defaults_for_keys(ld.self, default_keys))

load_dict(self, dicttoload) ==
    then_load_defaults(load_attr_dict(self, dicttoload),
                       DOMAIN default_values
                          \ {short_to_long(k) : k \in DOMAIN dicttoload})

\* Document.__init__: clear_ops() and load_dict(doc), doc = None read as {}
Document(doc) ==
    load_dict(clear_ops([attributes |-> EmptyMap, dirty_fields |-> {},
                         ops |-> EmptyMap]), doc)

(***************************************************************************)
(* The hooks.  The base class's hooks do nothing; save's comments provide  *)
(* for overrides of the pre_ hooks that fill in a missing required field   *)
(* or add to the operations: "fill", "fill_insert" and "fill_update" set   *)
(* name where it has no value, "count" increments seq, "identify" and      *)
(* "identify_insert" assign the identity HookIdentity to a document that   *)
(* has none.                                                               *)
(***************************************************************************)
HookIdentity == ObjectId(2)

filled(self) ==
    IF "name" \notin DOMAIN self.attributes THEN set(self, "name", Text("x")).self
    ELSE self

identified(self) ==
    IF ~has_id(self) THEN set(self, "_id", HookIdentity).self ELSE self

pre_save(self, hook) ==
    IF hook = "fill" THEN filled(self)
    ELSE IF hook = "count" THEN inc(self, "seq", 3).self
    ELSE IF hook = "identify" THEN identified(self)
    ELSE self

pre_insert(self, hook) ==
    IF hook = "fill_insert" THEN filled(self)
    ELSE IF hook = "identify_insert" THEN identified(self)
    ELSE self

pre_update(self, hook) == IF hook = "fill_update" THEN filled(self) ELSE self

\* the document after pre_save and pre_insert or pre_update
pre_hooks(self, hook) ==
    IF ~has_id(pre_save(self, hook)) THEN pre_insert(pre_save(self, hook), hook)
    ELSE pre_update(pre_save(self, hook), hook)
post_insert(self) == self
post_update(self) == self
post_save(self) == self

(***************************************************************************)
(* Document.save.  trace lists the steps taken, calls the store calls      *)
(* issued, before the document's state when the store call was (or would   *)
(* have been) issued.                                                      *)
(***************************************************************************)
Saved(self, dbv, err, trace, calls, before) ==
    [self |-> self, db |-> dbv, err |-> err, trace |-> trace, calls |-> calls,
     before |-> before]

StoreCall(method, query, update) ==
    [method |-> method, query |-> query, update |-> update]

upsert_and_load_clearing(self, dbv, query, update, store_ok) ==
    LET call == StoreCall("find_and_modify", query, update)
        fam == find_and_modify(dbv, query, update, store_ok)
        ld == load_dict(self, fam.res)
    IN  IF fam.err # ""
        THEN Saved([self EXCEPT !.ops = EmptyMap, !.dirty_fields = {}], dbv, fam.err,
                   <<"find_and_modify">>, <<call>>, self)
        ELSE Saved(ld.self, fam.db, ld.err, <<"find_and_modify", "load_dict">>,
                   <<call>>, self)

\* res = col.find_and_modify(...); self.load_dict(res)
upsert_and_load(self, dbv, query, update, store_ok) ==
    LET call == StoreCall("find_and_modify", query, update)
        fam == find_and_modify(dbv, query, update, store_ok)
        ld == load_dict(self, fam.res)
    IN  IF fam.err # ""
        THEN Saved(self, dbv, fam.err, <<"find_and_modify">>, <<call>>, self)
        ELSE Saved(ld.self, fam.db, ld.err, <<"find_and_modify", "load_dict">>,
                   <<call>>, self)

finish_post_save_first(self, new) ==
    [self |-> clear_ops(IF new THEN post_insert(post_save(self))
                        ELSE post_update(post_save(self))),
     trace |-> <<"post_save", IF new THEN "post_insert" ELSE "post_update",
                 "clear_ops">>]

\* post_insert() or post_update(); clear_ops(); post_save()
finish(self, new) ==
    [self |-> post_save(clear_ops(IF new THEN post_insert(self)
                                  ELSE post_update(self))),
     trace |-> <<IF new THEN "post_insert" ELSE "post_update", "clear_ops",
                 "post_save">>]

save_branch(self, dbv, new, query, store_ok, trace) ==
    LET o == operations(self)
        up == upsert_and_load(self, dbv, query, o.doc, store_ok)
    IN  IF o.err # "" THEN Saved(self, dbv, o.err, trace, <<>>, self)
        ELSE IF DOMAIN o.doc = {}
        THEN Saved(finish(self, new).self, dbv, "", trace \o finish(self, new).trace,
                   <<>>, self)
        ELSE IF up.err # ""
        THEN Saved(up.self, up.db, up.err, trace \o up.trace, up.calls, self)
        ELSE Saved(finish(up.self, new).self, up.db, "",
                   trace \o up.trace \o finish(up.self, new).trace, up.calls, self)

missing_required_of_structure(self) == required \ DOMAIN structure

\* set(self.required) - set(self.__attributes.keys())
missing_required(self) == required \ DOMAIN self.attributes

identity_query_always_fresh(self, new, oid) == ObjectId(oid)

\* query={'_id': ObjectId()} for an insert, {'_id': self.__attributes['_id']} else
identity_query(self, new, oid) ==
    IF new THEN ObjectId(oid) ELSE self.attributes["_id"]

save_required_before_hooks(self, dbv, hook, store_ok, oid) ==
    LET s1 == pre_save(self, hook)
        new == ~has_id(s1)
        s2 == IF new THEN pre_insert(s1, hook) ELSE pre_update(s1, hook)
        trace == <<"required", "pre_save", IF new THEN "pre_insert" ELSE "pre_update">>
    IN  IF missing_required(self) # {}
        THEN Saved(self, dbv, "ValueError: required fields are missing", <<"required">>,
                   <<>>, self)
        ELSE save_branch(s2, dbv, new, identity_query(s2, new, oid), store_ok, trace)

save(self, dbv, hook, store_ok, oid) ==
    LET s1 == pre_save(self, hook)
        new == ~has_id(s1)
        s2 == IF new THEN pre_insert(s1, hook) ELSE pre_update(s1, hook)
        trace == <<"pre_save", IF new THEN "pre_insert" ELSE "pre_update", "required">>
    IN  IF missing_required(s2) # {}
        THEN Saved(s2, dbv, "ValueError: required fields are missing", trace, <<>>, s2)
        ELSE save_branch(s2, dbv, new, identity_query(s2, new, oid), store_ok, trace)

(***************************************************************************)
(* Document.delete.  self['_id'] needs __getitem__, which Document does    *)
(* not define, so the removal is never issued.                             *)
(***************************************************************************)
delete(self) ==
    IF ~has_id(self) THEN [err |-> "ValueError: document has no _id", calls |-> <<>>]
    ELSE [err |-> "TypeError", calls |-> <<>>]

(***************************************************************************)
(* History: hist is the list of mutation calls since the pending state was *)
(* last cleared, last is the most recent operation and its outcome.        *)
(***************************************************************************)
Call(op, key, val, err) == [op |-> op, key |-> key, val |-> val, err |-> err]

NoSelf == [attributes |-> EmptyMap, dirty_fields |-> {}, ops |-> EmptyMap]

Outcome(op, key, val, err, trace, calls, before, pending, store_ok) ==
    [op |-> op, key |-> key, val |-> val, err |-> err, trace |-> trace,
     calls |-> calls, before |-> before, pending |-> pending, store_ok |-> store_ok]

NoCheck == [op |-> "none"]

NoHeap == <<>>

NoGenerator == <<>>

NumKeys == {"seq"}
Values(key) ==
    IF key = "name" THEN {Text("x"), Text("y"), None}
    ELSE IF key = "seq" THEN {Num(5)}
    ELSE {List(<<7>>)}
Deltas == {3, 5}
Decrements == {3}
Elements == {8}
Hooks == {"pass", "fill"}
AllHooks ==
    {"pass", "fill", "fill_insert", "fill_update", "count", "identify", "identify_insert"}

\* the mutation call a hook makes
HookCall(hook) ==
    IF hook \in {"identify", "identify_insert"} THEN Call("set", "_id", HookIdentity, "")
    ELSE IF hook = "count" THEN Call("inc", "seq", Num(3), "")
    ELSE Call("set", "name", Text("x"), "")

Become(self) ==
    /\ attributes' = self.attributes
    /\ dirty_fields' = self.dirty_fields
    /\ ops' = self.ops

Mutation(op, key, val, r) ==
    /\ alive
    /\ Len(hist) < MaxHist
    /\ Become(r.self)
    /\ hist' = Append(hist, Call(op, key, val, r.err))
    /\ last' = Outcome(op, key, val, r.err, <<>>, <<>>, Self, hist, TRUE)
    /\ UNCHANGED <<db, nextOid, wrappers, cls, alive, fcheck, aux>>

Init ==
    /\ attributes = EmptyMap
    /\ dirty_fields = {}
    /\ ops = EmptyMap
    /\ db = EmptyMap
    /\ nextOid = 1
    /\ wrappers = <<>>
    /\ hist = <<>>
    /\ last = Outcome("init", "", None, "", <<>>, <<>>, NoSelf, <<>>, TRUE)
    /\ cls = "Counter"
    /\ alive = TRUE
    /\ fcheck = NoCheck
    /\ heap = NoHeap
    /\ other = NoSelf
    /\ shared = EmptyMap
    /\ population = <<>>
    /\ generator = NoGenerator

Set(key, value) == Mutation("set", key, value, set(Self, key, value))

Unset(key) == Mutation("unset", key, None, unset(Self, key))

Inc(key, value) == Mutation("inc", key, Num(value), inc(Self, key, value))

Dec(key, value) == Mutation("dec", key, Num(value), dec(Self, key, value))

SetAttr(key, value) == Mutation("setattr", key, value, setattr(Self, key, value))

AddToSet(key, value) == Mutation("addToSet", key, value, addToSet(Self, key, value))

Pull(key, value) == Mutation("pull", key, value, pull(Self, key, value))

Push(key, value) == Mutation("push", key, value, push(Self, key, value))

ReadList(key) ==
    /\ alive
    /\ wrappers = <<>>
    /\ structure[key] = "list"
    /\ getattr(Self, key).err = ""
    /\ wrappers' = Append(wrappers,
                          ChangeTrackingList(getattr(Self, key).val.items, key))
    /\ last' = Outcome("read", key, getattr(Self, key).val, "", <<>>, <<>>, Self,
                        hist, TRUE)
    /\ UNCHANGED <<attributes, dirty_fields, ops, db, nextOid, hist, cls, alive,
                   fcheck, aux>>

ListAppend(i, x) ==
    /\ i \in DOMAIN wrappers
    /\ Len(wrappers[i].items) < MaxLen
    /\ Len(hist) < MaxHist
    /\ LET r == wrapper_append(Self, wrappers[i], x)
       IN  /\ Become(r.self)
           /\ wrappers' = [wrappers EXCEPT ![i] = r.w]
           /\ hist' = Append(hist, Call("append", r.w.name, List(r.w.items), ""))
           /\ last' = Outcome("append", r.w.name, List(r.w.items), "", <<>>, <<>>, Self,
                           hist, TRUE)
    /\ UNCHANGED <<db, nextOid, cls, alive, fcheck, aux>>

ListPop(i) ==
    /\ i \in DOMAIN wrappers
    /\ Len(hist) < MaxHist
    /\ LET r == wrapper_pop(Self, wrappers[i])
       IN  /\ Become(r.self)
           /\ wrappers' = [wrappers EXCEPT ![i] = r.w]
           /\ hist' = Append(hist, Call("pop", r.w.name, List(r.w.items), r.err))
           /\ last' = Outcome("pop", r.w.name, List(r.w.items), r.err, <<>>, <<>>, Self,
                           hist, TRUE)
    /\ UNCHANGED <<db, nextOid, cls, alive, fcheck, aux>>

\* the last reference to the document is dropped while a wrapper is still held
DropDocument ==
    /\ alive
    /\ wrappers # <<>>
    /\ alive' = FALSE
    /\ last' = Outcome("del", "", None, "", <<>>, <<>>, Self, hist, TRUE)
    /\ UNCHANGED <<attributes, dirty_fields, ops, db, nextOid, wrappers, hist, cls,
                   fcheck, aux>>

Save(hook, store_ok) ==
    /\ alive
    /\ hook # "pass" => Len(hist) < MaxHist
    /\ ~has_id(Self) => nextOid <= MaxOid
    /\ \E r \in {save(Self, db, hook, store_ok, nextOid)} :
           /\ Become(r.self)
           /\ db' = r.db
           /\ nextOid' = IF r.calls # <<>> /\ ~has_id(pre_save(Self, hook))
                         THEN nextOid + 1
                         ELSE nextOid
           /\ hist' = IF r.err = "" THEN <<>>
                      ELSE IF pre_hooks(Self, hook) # Self
                           THEN Append(hist, HookCall(hook))
                           ELSE hist
           /\ last' = Outcome("save", "", None, r.err, r.trace, r.calls, r.before,
                           hist, store_ok)
    /\ UNCHANGED <<wrappers, cls, alive, fcheck, aux>>

Delete ==
    /\ alive
    /\ last' = Outcome("delete", "", None, delete(Self).err, <<>>, delete(Self).calls,
                       Self, hist, TRUE)
    /\ UNCHANGED <<attributes, dirty_fields, ops, db, nextOid, wrappers, hist, cls,
                   alive, fcheck, aux>>

DropWrapper(i) ==
    /\ i \in DOMAIN wrappers
    /\ wrappers' = SubSeq(wrappers, 1, i - 1) \o SubSeq(wrappers, i + 1, Len(wrappers))
    /\ UNCHANGED <<attributes, dirty_fields, ops, db, nextOid, hist, last, cls,
                   alive, fcheck, aux>>

(***************************************************************************)
(* Spec: the scalar fields name and seq under set, unset, inc, dec, save   *)
(* and delete.  SpecList: the list field events under set, unset, reads,   *)
(* wrapper appends and save.                                               *)
(***************************************************************************)
ScalarKeys == {"name", "seq"}
ListKeys == {"events"}

Next ==
    \/ \E key \in ScalarKeys : \E value \in Values(key) : Set(key, value)
    \/ \E key \in ScalarKeys : Unset(key)
    \/ \E key \in NumKeys : \E value \in Deltas : Inc(key, value)
    \/ \E key \in NumKeys : \E value \in Decrements : Dec(key, value)
    \/ \E hook \in Hooks : \E store_ok \in BOOLEAN : Save(hook, store_ok)
    \/ Delete

Spec == Init /\ [][Next]_vars

NextList ==
    \/ \E key \in ListKeys : \E value \in Values(key) : Set(key, value)
    \/ \E value \in Values("name") \ {None} : Set("name", value)
    \/ \E key \in ListKeys : Unset(key)
    \/ \E key \in ListKeys : ReadList(key)
    \/ \E i \in DOMAIN wrappers : \E x \in Elements : ListAppend(i, x)
    \/ \E i \in DOMAIN wrappers : DropWrapper(i)
    \/ \E store_ok \in BOOLEAN : Save("pass", store_ok)

SpecList == Init /\ [][NextList]_vars

(***************************************************************************)
(* SpecHooks: name and seq under set, unset, inc and a save with one of    *)
(* the hook overrides.                                                     *)
(***************************************************************************)
NextHooks ==
    \/ \E value \in {Text("y")} : Set("name", value)
    \/ Unset("name")
    \/ \E value \in {5} : Inc("seq", value)
    \/ \E hook \in AllHooks : \E store_ok \in BOOLEAN : Save(hook, store_ok)

SpecHooks == Init /\ [][NextHooks]_vars

(***************************************************************************)
(* SpecEnqueue: set, unset and add_operation called directly, with the     *)
(* operator $set and with a field outside the schema among the arguments.  *)
(***************************************************************************)
AddOperation(op, key, val) ==
    Mutation("add_operation", key, val, add_operation(Self, op, key, val))

NextEnqueue ==
    \/ \E value \in Values("name") : Set("name", value)
    \/ \E key \in ScalarKeys : Unset(key)
    \/ \E op \in {"$set", "$inc"} : \E key \in {"seq", "zz"} : \E val \in {Num(5)} :
          AddOperation(op, key, val)

SpecEnqueue == Init /\ [][NextEnqueue]_vars

(***************************************************************************)
(* SpecDirty: the list field events and name under set, unset, mark_dirty, *)
(* reads, wrapper appends and save.                                        *)
(***************************************************************************)
MarkDirty(key) == Mutation("mark_dirty", key, None, Ok(mark_dirty(Self, key)))

NextDirty ==
    \/ \E key \in ListKeys : \E value \in Values(key) \ {None} : Set(key, value)
    \/ \E value \in {Text("x")} : Set("name", value)
    \/ \E key \in ListKeys : Unset(key)
    \/ \E key \in {"name"} : MarkDirty(key)
    \/ \E key \in ListKeys : ReadList(key)
    \/ \E i \in DOMAIN wrappers : \E x \in Elements : ListAppend(i, x)
    \/ \E i \in DOMAIN wrappers : DropWrapper(i)
    \/ \E store_ok \in BOOLEAN : Save("pass", store_ok)

SpecDirty == Init /\ [][NextDirty]_vars

(***************************************************************************)
(* SpecReload: set stores any value without a check of its type, so the    *)
(* document the store returns to a save may hold a value that              *)
(* load_attr_dict cannot convert to the declared type.                     *)
(***************************************************************************)
NextReload ==
    \/ \E value \in {Text("x")} : Set("name", value)
    \/ \E value \in {Num(5), Text("x")} : Set("seq", value)
    \/ \E value \in {List(<<7>>), Num(5)} : Set("events", value)
    \/ \E value \in Deltas : Inc("seq", value)
    \/ \E store_ok \in BOOLEAN : Save("pass", store_ok)

SpecReload == Init /\ [][NextReload]_vars

(***************************************************************************)
(* SpecId: the identity field under attribute assignment, set, unset and   *)
(* save.                                                                   *)
(***************************************************************************)
Identities == {ObjectId(1), ObjectId(2)}

NextId ==
    \/ \E value \in {Text("x")} : Set("name", value)
    \/ \E value \in Identities \cup {Text("x")} : SetAttr("_id", value)
    \/ \E value \in Identities : Set("_id", value)
    \/ Unset("_id")
    \/ \E store_ok \in BOOLEAN : Save("pass", store_ok)

SpecId == Init /\ [][NextId]_vars

(***************************************************************************)
(* SpecLoad: an instance of either entity type constructed from a storage  *)
(* document found in the collection (or from none), then set, inc, unset   *)
(* and save.  db holds the document the instance was constructed from.     *)
(***************************************************************************)
Classes == {"Counter", "Defaulted"}

Found(fields) ==
    [k \in {"_id"} \cup DOMAIN fields |-> IF k = "_id" THEN ObjectId(1) ELSE fields[k]]

LoadDocs ==
    {EmptyMap,
     Found([n |-> Text("x")]),
     Found([n |-> Text("x"), seq |-> Num(5)]),
     Found([n |-> Text("x"), events |-> List(<<7>>)]),
     Found([n |-> Num(5)]),
     Found([n |-> Text("x"), zz |-> Num(9)])}

Constructed(r) ==
    /\ r.err = ""
    /\ attributes = r.self.attributes
    /\ dirty_fields = r.self.dirty_fields
    /\ ops = r.self.ops

InitLoad ==
    \E c \in Classes : \E doc \in LoadDocs :
       /\ cls = c
       /\ Constructed(Document(doc))
       /\ db = IF doc = EmptyMap THEN EmptyMap ELSE [i \in {1} |-> doc]
       /\ nextOid = IF doc = EmptyMap THEN 1 ELSE 2
       /\ wrappers = <<>>
       /\ hist = <<>>
       /\ last = Outcome("load", "", None, "", <<>>, <<>>, NoSelf, <<>>, TRUE)
       /\ alive = TRUE
       /\ fcheck = NoCheck
       /\ heap = NoHeap
       /\ other = NoSelf
       /\ shared = EmptyMap
       /\ population = <<>>
       /\ generator = NoGenerator

NextLoad ==
    \/ \E value \in Values("name") \ {None} : Set("name", value)
    \/ \E key \in NumKeys : \E value \in Values(key) : Set(key, value)
    \/ \E key \in NumKeys : Unset(key)
    \/ \E key \in NumKeys : \E value \in Deltas : Inc(key, value)
    \/ \E store_ok \in BOOLEAN : Save("pass", store_ok)

SpecLoad == InitLoad /\ [][NextLoad]_vars

(***************************************************************************)
(* SpecWrap: the list wrapper under append and pop, with the owning        *)
(* document alive or gone.                                                 *)
(***************************************************************************)
NextWrap ==
    \/ \E key \in ListKeys : \E value \in Values(key) : Set(key, value)
    \/ \E key \in ListKeys : ReadList(key)
    \/ \E i \in DOMAIN wrappers : \E x \in Elements : ListAppend(i, x)
    \/ \E i \in DOMAIN wrappers : ListPop(i)
    \/ \E i \in DOMAIN wrappers : DropWrapper(i)
    \/ DropDocument

SpecWrap == Init /\ [][NextWrap]_vars

(***************************************************************************)
(* Field descriptors (src/mongotron/field_types.py).  A descriptor is a    *)
(* record of its kind, its element descriptors and its basic flag; values  *)
(* are the tagged records above, the items of a container being values     *)
(* themselves.  A pair is a key and a value of a dict or of a document, a  *)
(* set keeps its elements in iteration order, and a raised exception is    *)
(* the value Raised(e).                                                    *)
(***************************************************************************)
Bool(b) == [kind |-> "bool", n |-> IF b THEN 1 ELSE 0, s |-> "", items |-> <<>>]
Bytes(s) == [kind |-> "bytes", n |-> 0, s |-> s, items |-> <<>>]
Binary(s) == [kind |-> "binary", n |-> 0, s |-> s, items |-> <<>>]
Long(n) == [kind |-> "long", n |-> n, s |-> "", items |-> <<>>]
SetOf(xs) == [kind |-> "set", n |-> 0, s |-> "", items |-> xs]
Dict(pairs) == [kind |-> "dict", n |-> 0, s |-> "", items |-> pairs]
Pair(k, v) == [kind |-> "pair", n |-> 0, s |-> "", items |-> <<k, v>>]
SubDocument(pairs) == [kind |-> "doc", n |-> 0, s |-> "", items |-> pairs]
Raised(e) == [kind |-> "raise", n |-> 0, s |-> e, items |-> <<>>]

\* the first exception among the values xs, or the value built from them
Built(xs, value) ==
    IF \E i \in DOMAIN xs : xs[i].kind = "raise"
    THEN xs[CHOOSE i \in DOMAIN xs :
               xs[i].kind = "raise" /\ \A j \in 1..(i - 1) : xs[j].kind # "raise"]
    ELSE value

RECURSIVE sorted(_)
sorted(S) ==
    IF S = {} THEN <<>>
    ELSE LET m == CHOOSE x \in S : \A y \in S : x.n <= y.n
         IN  <<m>> \o sorted(S \ {m})

\* set(xs): the distinct elements in iteration order
set_of(xs) == SetOf(sorted({xs[i] : i \in DOMAIN xs}))

\* the kinds whose class inherits Field.collapse and Field.expand
BasicKinds == {"any", "uuid", "bool", "text", "datetime", "float", "oid"}

is_basic(fields) == \A i \in DOMAIN fields : fields[i].kind \in BasicKinds

ScalarField(kind) == [kind |-> kind, sub |-> <<>>, basic |-> FALSE]

ListField(element_type) ==
    [kind |-> "list", sub |-> <<element_type>>, basic |-> is_basic(<<element_type>>)]

SetField(element_type) ==
    [kind |-> "set", sub |-> <<element_type>>, basic |-> is_basic(<<element_type>>)]

\* built by FixedListField.parse from the types of the mini-language, which
\* have no collapse attribute: is_basic(*element_types) is False
FixedListField(element_types) ==
    [kind |-> "fixed", sub |-> element_types, basic |-> FALSE]

DictField(key_type, value_type) ==
    [kind |-> "dict", sub |-> <<key_type, value_type>>,
     basic |-> is_basic(<<key_type, value_type>>)]

DocumentField == [kind |-> "doc", sub |-> <<>>, basic |-> FALSE]

\* long(value)
long(value) ==
    IF value.kind \in {"num", "long", "bool"} THEN Long(value.n)
    ELSE IF value.kind \in {"text", "bytes", "binary"} THEN Raised("ValueError")
    ELSE Raised("TypeError")

\* Document.document_as_dict of a sub-document of the entity type
document_as_dict(value) ==
    Dict([i \in DOMAIN value.items |->
            Pair(Text(long_to_short(value.items[i].items[1].s)),
                 value.items[i].items[2])])

\* doc_type(doc=value): the sub-document loaded from a storage mapping
doc_type(value) ==
    SubDocument([i \in DOMAIN value.items |->
                   Pair(Text(short_to_long(value.items[i].items[1].s)),
                        value.items[i].items[2])])

RECURSIVE collapse(_, _)
collapse(field, value) ==
    LET each == [i \in DOMAIN value.items |-> collapse(field.sub[1], value.items[i])]
        byidx == [i \in DOMAIN value.items |-> collapse(field.sub[i], value.items[i])]
        pairs == [i \in DOMAIN value.items |->
                    Built(<<collapse(field.sub[1], value.items[i].items[1]),
                            collapse(field.sub[2], value.items[i].items[2])>>,
                          Pair(collapse(field.sub[1], value.items[i].items[1]),
                               collapse(field.sub[2], value.items[i].items[2])))]
    IN  IF field.kind = "blob" THEN Binary(value.s)
        ELSE IF field.kind = "int" THEN long(value)
        ELSE IF field.kind = "list"
             THEN IF field.basic THEN value ELSE Built(each, List(each))
        ELSE IF field.kind = "set" THEN Built(each, List(each))
        ELSE IF field.kind = "fixed"
             THEN IF field.basic THEN value ELSE Built(byidx, List(byidx))
        ELSE IF field.kind = "dict"
             THEN IF field.basic THEN value ELSE Built(pairs, Dict(pairs))
        ELSE IF field.kind = "doc" THEN document_as_dict(value)
        ELSE value

RECURSIVE expand(_, _)
expand(field, value) ==
    LET each == [i \in DOMAIN value.items |-> expand(field.sub[1], value.items[i])]
        byidx == [i \in DOMAIN value.items |-> expand(field.sub[i], value.items[i])]
    IN  IF field.kind = "blob"
        THEN IF value.kind \in {"binary", "bytes"} THEN Bytes(value.s)
             ELSE Raised("ValidationError")
        ELSE IF field.kind = "list"
             THEN IF field.basic THEN value ELSE Built(each, List(each))
        ELSE IF field.kind = "set" THEN Built(each, set_of(each))
        ELSE IF field.kind = "fixed"
             THEN IF field.basic THEN value ELSE Built(byidx, List(byidx))
        ELSE IF field.kind = "dict"
             THEN IF field.basic THEN value ELSE Raised("NameError")
        ELSE IF field.kind = "doc"
             THEN IF value.kind = "dict" THEN doc_type(value)
                  ELSE Raised("ValidationError")
        ELSE value

(***************************************************************************)
(* SpecField: expand and collapse applied to the valid application values  *)
(* of each kind of field.  The initial state draws a descriptor and a      *)
(* value, Convert collapses the value, expands the result and collapses it *)
(* again.                                                                  *)
(***************************************************************************)
SeqsUpTo(S, n) == UNION {[1..k -> S] : k \in 0..n}

ScalarKinds == {"any", "bool", "blob", "text", "int", "oid", "float"}

ScalarFields == {ScalarField(kind) : kind \in ScalarKinds}

Fields ==
    ScalarFields
       \cup {ListField(e) : e \in ScalarFields}
       \cup {SetField(ScalarField(kind)) : kind \in {"int", "blob", "text"}}
       \cup {FixedListField(<<ScalarField("bool"), ScalarField("int")>>),
             FixedListField(<<ScalarField("text"), ScalarField("blob")>>)}
       \cup {DictField(ScalarField("text"), ScalarField(kind)) :
                kind \in {"text", "int", "blob"}}
       \cup {DocumentField, ListField(SetField(ScalarField("int")))}

SubDocuments ==
    {SubDocument(<<>>),
     SubDocument(<<Pair(Text("name"), Text("a"))>>),
     SubDocument(<<Pair(Text("_id"), ObjectId(1)), Pair(Text("name"), Text("a"))>>)}

RECURSIVE AppValues(_)
AppValues(field) ==
    IF field.kind = "any" THEN {Text("a"), Num(1)}
    ELSE IF field.kind = "bool" THEN {Bool(TRUE), Bool(FALSE)}
    ELSE IF field.kind = "blob" THEN {Bytes(""), Bytes("a")}
    ELSE IF field.kind = "text" THEN {Text("a"), Text("b")}
    ELSE IF field.kind = "int" THEN {Num(1), Long(2)}
    ELSE IF field.kind = "oid" THEN {ObjectId(1)}
    ELSE IF field.kind = "float"
         THEN {[kind |-> "float", n |-> 1, s |-> "", items |-> <<>>]}
    ELSE IF field.kind = "list"
         THEN {List(xs) : xs \in SeqsUpTo(AppValues(field.sub[1]), MaxLen)}
    ELSE IF field.kind = "set"
         THEN {SetOf(sorted(S)) :
                 S \in {T \in SUBSET AppValues(field.sub[1]) : Cardinality(T) <= MaxLen}}
    ELSE IF field.kind = "fixed"
         THEN {List(<<a, b>>) : a \in AppValues(field.sub[1]),
                                b \in AppValues(field.sub[2])}
    ELSE IF field.kind = "dict"
         THEN {Dict(<<>>)}
                 \cup {Dict(<<Pair(k, v)>>) : k \in AppValues(field.sub[1]),
                                             v \in AppValues(field.sub[2])}
    ELSE SubDocuments

\* Python's ==: numbers compare by value whatever their width, a Binary
\* equals only a Binary, two documents are equal when both hold the same
\* identity, containers compare element by element.
identity_of(doc) ==
    IF \E i \in DOMAIN doc.items : doc.items[i].items[1] = Text("_id")
    THEN doc.items[CHOOSE i \in DOMAIN doc.items :
                      doc.items[i].items[1] = Text("_id")].items[2]
    ELSE None

RECURSIVE py_eq(_, _)
py_eq(a, b) ==
    IF a.kind \in {"num", "long", "bool"} /\ b.kind \in {"num", "long", "bool"}
    THEN a.n = b.n
    ELSE IF a.kind # b.kind THEN FALSE
    ELSE IF a.kind = "doc"
         THEN identity_of(a) # None /\ identity_of(a) = identity_of(b)
    ELSE /\ a.n = b.n
         /\ a.s = b.s
         /\ Len(a.items) = Len(b.items)
         /\ \A i \in DOMAIN a.items : py_eq(a.items[i], b.items[i])

Checked(op, field, x, collapsed, expanded, recollapsed) ==
    [op |-> op, field |-> field, x |-> x, collapsed |-> collapsed,
     expanded |-> expanded, recollapsed |-> recollapsed]

InitField ==
    /\ Init!1
    /\ Init!2
    /\ Init!3
    /\ Init!4
    /\ Init!5
    /\ Init!6
    /\ Init!7
    /\ Init!8
    /\ Init!9
    /\ Init!10
    /\ Init!12
    /\ Init!13
    /\ Init!14
    /\ Init!15
    /\ Init!16
    /\ \E field \in Fields : \E x \in AppValues(field) :
          fcheck = Checked("input", field, x, None, None, None)

\* y = field.collapse(x); field.collapse(field.expand(y))
recollapse(field, expanded) ==
    IF expanded.kind = "raise" THEN expanded ELSE collapse(field, expanded)

Convert ==
    /\ fcheck.op = "input"
    /\ fcheck' = Checked("converted", fcheck.field, fcheck.x,
                         collapse(fcheck.field, fcheck.x),
                         expand(fcheck.field, collapse(fcheck.field, fcheck.x)),
                         recollapse(fcheck.field,
                                    expand(fcheck.field,
                                           collapse(fcheck.field, fcheck.x))))
    /\ UNCHANGED <<attributes, dirty_fields, ops, db, nextOid, wrappers, hist, last,
                   cls, alive, aux>>

NextField == Convert

SpecField == InitField /\ [][NextField]_vars

(***************************************************************************)
(* Typed assignment through a descriptor (Field.__set__) and the           *)
(* notification of a set wrapper (ChangeTrackingSet._set).  A descriptor   *)
(* bound to an entity type carries the field's name and its readonly and   *)
(* write_once flags.                                                       *)
(***************************************************************************)
Descriptor(field, name, readonly, write_once) ==
    [field |-> field, name |-> name, readonly |-> readonly,
     write_once |-> write_once]

\* isinstance(value, self._TYPES) of ScalarField.validate
is_instance_of_TYPES(kind, value) ==
    IF kind = "bool" THEN value.kind = "bool"
    ELSE IF kind = "blob" THEN value.kind \in {"bytes", "binary"}
    ELSE IF kind = "text" THEN value.kind \in {"text", "bytes", "binary"}
    ELSE IF kind = "int" THEN value.kind \in {"num", "long", "bool"}
    ELSE IF kind = "oid" THEN value.kind \in {"oid", "none"}
    ELSE value.kind = kind

\* the exception validate raises, "" when it returns
RECURSIVE validate(_, _)
validate(field, value) ==
    LET each == [i \in DOMAIN value.items |->
                   validate(field.sub[1], value.items[i])]
        byidx == [i \in DOMAIN value.items |->
                    validate(field.sub[i], value.items[i])]
        pairs == [i \in DOMAIN value.items |->
                    IF validate(field.sub[1], value.items[i].items[1]) # ""
                    THEN validate(field.sub[1], value.items[i].items[1])
                    ELSE validate(field.sub[2], value.items[i].items[2])]
        first(errs) == IF \A i \in DOMAIN errs : errs[i] = "" THEN ""
                       ELSE errs[CHOOSE i \in DOMAIN errs :
                                   errs[i] # "" /\ \A j \in 1..(i - 1) : errs[j] = ""]
    IN  IF field.kind = "any" THEN ""
        ELSE IF field.kind = "list"
             THEN IF value.kind # "list" THEN "ValidationError" ELSE first(each)
        ELSE IF field.kind = "set"
             THEN IF value.kind # "set" THEN "ValidationError" ELSE first(each)
        ELSE IF field.kind = "fixed"
             THEN IF value.kind # "list" \/ Len(value.items) # Len(field.sub)
                  THEN "ValidationError"
                  ELSE first(byidx)
        ELSE IF field.kind = "dict"
             THEN IF value.kind # "dict" THEN "ValidationError" ELSE first(pairs)
        ELSE IF field.kind = "doc"
             THEN IF value.kind # "doc" THEN "ValidationError"
                  ELSE "AttributeError"     \* value.validate(): Document has no validate
        ELSE IF is_instance_of_TYPES(field.kind, value) THEN ""
        ELSE "ValidationError"

__set__uncollapsed(self, obj, value) ==
    IF self.readonly THEN Raise(obj, "ValidationError")
    ELSE IF self.write_once /\ self.name \in DOMAIN obj.attributes
         THEN Raise(obj, "ValidationError")
    ELSE IF value = None THEN unset(obj, self.name)
    ELSE IF validate(self.field, value) # ""
         THEN Raise(obj, validate(self.field, value))
    ELSE set(obj, self.name, value)

__set__(self, obj, value) ==
    IF self.readonly THEN Raise(obj, "ValidationError")
    ELSE IF self.write_once /\ self.name \in DOMAIN obj.attributes
         THEN Raise(obj, "ValidationError")
    ELSE IF value = None THEN unset(obj, self.name)
    ELSE IF validate(self.field, value) # ""
         THEN Raise(obj, validate(self.field, value))
    ELSE set(obj, self.name, collapse(self.field, value))

\* ChangeTrackingSet._set
_set(parent, field, items) == set(parent, field.name, collapse(field.field, items))

\* ChangeTrackingSet(items, parent, field).add(o): set.add, then _set
wrapper_add(parent, field, items, o) ==
    _set(parent, field, set_of(Append(items.items, o)))

TypedSet(field, value) ==
    /\ alive
    /\ value = None => ops = EmptyMap
    /\ Become(__set__(field, Self, value).self)
    /\ fcheck' = Checked("assign", field.field, value, None, None, None)
    /\ last' = Outcome("assign", field.name, None, __set__(field, Self, value).err,
                       <<>>, <<>>, NoSelf, hist, TRUE)
    /\ UNCHANGED <<db, nextOid, wrappers, hist, cls, alive, aux>>

SetAdd(field, items, o) ==
    /\ alive
    /\ field.field.kind = "set"
    /\ Become(wrapper_add(Self, field, items, o).self)
    /\ fcheck' = Checked("add", field.field, set_of(Append(items.items, o)), None,
                         None, None)
    /\ last' = Outcome("add", field.name, None,
                       wrapper_add(Self, field, items, o).err, <<>>, <<>>, NoSelf,
                       hist, TRUE)
    /\ UNCHANGED <<db, nextOid, wrappers, hist, cls, alive, aux>>

(***************************************************************************)
(* SpecAssign: typed assignments and set wrapper notifications on the      *)
(* field seq of an instance, for each kind of descriptor, with valid       *)
(* values, None and a value of the wrong type.                             *)
(***************************************************************************)
AssignedFields ==
    {ScalarField("blob"), ScalarField("int"), ScalarField("text"),
     SetField(ScalarField("int")), ListField(ScalarField("blob")),
     DictField(ScalarField("text"), ScalarField("int")), DocumentField}

Descriptors ==
    {Descriptor(field, "seq", FALSE, FALSE) : field \in AssignedFields}
       \cup {Descriptor(ScalarField("blob"), "seq", TRUE, FALSE),
             Descriptor(ScalarField("blob"), "seq", FALSE, TRUE)}

Assigned(field) == AppValues(field) \cup {None, ObjectId(2)}

NextAssign ==
    \/ \E field \in Descriptors : \E value \in Assigned(field.field) :
          TypedSet(field, value)
    \/ \E field \in {d \in Descriptors : d.field.kind = "set"} :
          \E items \in AppValues(field.field) :
             \E o \in AppValues(field.field.sub[1]) : SetAdd(field, items, o)

SpecAssign == Init /\ [][NextAssign]_vars

(***************************************************************************)
(* Mutable default values.  heap.objects is the sequence of the container  *)
(* objects, an object being its kind and its items, an item a number or a  *)
(* reference to an object; heap.table is the default table of the entity   *)
(* type (canonical name -> object); heap.instances holds, per instance,    *)
(* the object each defaulted field is bound to.                            *)
(***************************************************************************)
Number(n) == [ref |-> FALSE, n |-> n]
Ref(id) == [ref |-> TRUE, n |-> id]
Object(kind, items) == [kind |-> kind, items |-> items]

\* new_value[:] and ChangeTrackingList(attr, ...): a new list of the same items
shallow_copy(objects, id) ==
    [objects |-> Append(objects, objects[id]), id |-> Len(objects) + 1]

\* copy.deepcopy: a new object whose referenced items are copies themselves
RECURSIVE deepcopy_items(_, _, _)
RECURSIVE deepcopy(_, _)
deepcopy_items(objects, items, done) ==
    IF items = <<>> THEN [objects |-> objects, items |-> done]
    ELSE IF ~Head(items).ref
         THEN deepcopy_items(objects, Tail(items), Append(done, Head(items)))
         ELSE deepcopy_items(deepcopy(objects, Head(items).n).objects, Tail(items),
                             Append(done,
                                    Ref(deepcopy(objects, Head(items).n).id)))

deepcopy(objects, id) ==
    [objects |-> Append(deepcopy_items(objects, objects[id].items, <<>>).objects,
                        Object(objects[id].kind,
                               deepcopy_items(objects, objects[id].items, <<>>).items)),
     id |-> Len(deepcopy_items(objects, objects[id].items, <<>>).objects) + 1]

\* Field.make: copy.deepcopy(self.default)
make(objects, default) == deepcopy(objects, default)

\* the value load_defaults_for_keys hands to set() for one default: a dict
\* default goes through deepcopy, a name Document.py does not import, a list
\* default is sliced, any other value is handed over as it is
new_value(objects, default) ==
    IF objects[default].kind = "dict"
    THEN [objects |-> objects, id |-> 0, err |-> "NameError"]
    ELSE IF objects[default].kind = "list"
         THEN [objects |-> shallow_copy(objects, default).objects,
               id |-> shallow_copy(objects, default).id, err |-> ""]
    ELSE [objects |-> objects, id |-> default, err |-> ""]

\* the defaults of the keys, one after the other
RECURSIVE hand_defaults(_, _, _, _)
hand_defaults(objects, table, keys, bound) ==
    IF keys = {} THEN [objects |-> objects, bound |-> bound, err |-> ""]
    ELSE LET dk == CHOOSE k \in keys : TRUE
             nv == new_value(objects, table[dk])
         IN  IF nv.err # "" THEN [objects |-> objects, bound |-> bound, err |-> nv.err]
             ELSE hand_defaults(nv.objects, table, keys \ {dk}, Put(bound, dk, nv.id))

RECURSIVE make_defaults(_, _, _, _)
make_defaults(objects, table, keys, bound) ==
    IF keys = {} THEN [objects |-> objects, bound |-> bound, err |-> ""]
    ELSE LET dk == CHOOSE k \in keys : TRUE
             nv == make(objects, table[dk])
         IN  make_defaults(nv.objects, table, keys \ {dk}, Put(bound, dk, nv.id))

\* the entity types: tags defaults to [[1]] and flags to set([1]), or meta
\* defaults to {}
DefaultTables ==
    {[objects |-> <<Object("list", <<Number(1)>>), Object("list", <<Ref(1)>>),
                    Object("set", <<Number(1)>>)>>,
      table |-> [tags |-> 2, flags |-> 3]],
     [objects |-> <<Object("dict", <<>>)>>, table |-> [meta |-> 1]]}

InitHeap ==
    /\ Init!1
    /\ Init!2
    /\ Init!3
    /\ Init!4
    /\ Init!5
    /\ Init!6
    /\ Init!7
    /\ Init!8
    /\ Init!9
    /\ Init!10
    /\ Init!11
    /\ Init!13
    /\ Init!14
    /\ Init!15
    /\ Init!16
    /\ \E t \in DefaultTables :
          heap = [objects |-> t.objects, table |-> t.table, instances |-> <<>>,
                  err |-> ""]

HeapStep(objects, instances, err) ==
    /\ heap' = [heap EXCEPT !.objects = objects, !.instances = instances,
                            !.err = err]
    /\ UNCHANGED <<attributes, dirty_fields, ops, db, nextOid, wrappers, hist, last,
                   cls, alive, fcheck, other, shared, population, generator>>

\* Doc(): no storage document, every default key is filled
Construct ==
    /\ Len(heap.instances) < MaxInstances
    /\ LET r == hand_defaults(heap.objects, heap.table, DOMAIN heap.table, EmptyMap)
       IN  /\ Len(r.objects) <= MaxObjects
           /\ HeapStep(r.objects,
                       IF r.err = "" THEN Append(heap.instances, r.bound)
                       ELSE heap.instances,
                       r.err)

\* an instance whose defaulted fields are bound to the descriptors' make()
ConstructByMake ==
    /\ Len(heap.instances) < MaxInstances
    /\ LET r == make_defaults(heap.objects, heap.table, DOMAIN heap.table, EmptyMap)
       IN  /\ Len(r.objects) <= MaxObjects
           /\ HeapStep(r.objects, Append(heap.instances, r.bound), "")

\* what __getattr__ hands out for the value bound to key: a stored list is
\* copied into a new ChangeTrackingList, a dict into a ChangeTrackingDict, any
\* other value is returned itself
read(objects, id) ==
    IF objects[id].kind \in {"list", "dict"}
    THEN [objects |-> shallow_copy(objects, id).objects,
          id |-> shallow_copy(objects, id).id]
    ELSE [objects |-> objects, id |-> id]

add_item(objects, id, x) ==
    [objects EXCEPT ![id].items = Append(@, Number(x))]

\* d.<key>.append(x) / d.<key>.add(x)
MutateField(i, key, x) ==
    /\ i \in DOMAIN heap.instances
    /\ key \in DOMAIN heap.instances[i]
    /\ LET r == read(heap.objects, heap.instances[i][key])
       IN  /\ Len(r.objects) <= MaxObjects
           /\ Len(r.objects[r.id].items) < MaxLen
           /\ HeapStep(add_item(r.objects, r.id, x), heap.instances, "")

\* d.<key>[0].append(x): the first element of the list read from the field
MutateNested(i, key, x) ==
    /\ i \in DOMAIN heap.instances
    /\ key \in DOMAIN heap.instances[i]
    /\ LET r == read(heap.objects, heap.instances[i][key])
       IN  /\ Len(r.objects) <= MaxObjects
           /\ r.objects[r.id].items # <<>>
           /\ r.objects[r.id].items[1].ref
           /\ Len(r.objects[r.objects[r.id].items[1].n].items) < MaxLen
           /\ HeapStep(add_item(r.objects, r.objects[r.id].items[1].n, x),
                       heap.instances, "")

NextHeap ==
    \/ Construct
    \/ ConstructByMake
    \/ \E i \in 1..MaxInstances : \E key \in {"tags", "flags", "meta"} :
          MutateField(i, key, 9)
    \/ \E i \in 1..MaxInstances : \E key \in {"tags", "flags", "meta"} :
          MutateNested(i, key, 9)

SpecHeap == InitHeap /\ [][NextHeap]_vars

(***************************************************************************)
(* The mini-language of field types (field_types.py, parse).  A token is   *)
(* what a structure maps a field to: None, a type (the tok is its name),   *)
(* a Document subclass ("Entity"), a Field instance ("TextField()"), a     *)
(* value that is no type ("5"), or a list, set or dict instance whose      *)
(* items are tokens, a dict holding its keys and values in turn.           *)
(***************************************************************************)
Token(tok, items) == [tok |-> tok, items |-> items]

Classes_ == {"list_type", "set_type", "dict_type", "bool", "str", "unicode",
             "basestring", "datetime", "int", "long", "float", "ObjectId",
             "NoneType", "UUID", "Entity"}

TYPE_ORDER == <<"any", "list", "set", "fixed", "dict", "bool", "blob", "text",
                "datetime", "int", "float", "oid", "doc", "uuid">>

_TYPES(kind) ==
    IF kind = "bool" THEN {"bool"}
    ELSE IF kind = "blob" THEN {"str"}
    ELSE IF kind = "text" THEN {"basestring", "unicode"}
    ELSE IF kind = "datetime" THEN {"datetime"}
    ELSE IF kind = "int" THEN {"int", "long"}
    ELSE IF kind = "float" THEN {"float"}
    ELSE IF kind = "oid" THEN {"ObjectId", "NoneType"}
    ELSE IF kind = "uuid" THEN {"UUID"}
    ELSE {}

\* klass.parse returning None, and parse or a constructor raising e
NoField == [kind |-> "", sub |-> <<>>, basic |-> FALSE]
Failed(e) == [kind |-> e, sub |-> <<>>, basic |-> FALSE]
IsFailure(field) == field.kind \in {"TypeError", "ValueError"}

\* the first failure among the parsed element types, or the field built
Lifted(subs, field) ==
    IF \E i \in DOMAIN subs : IsFailure(subs[i])
    THEN subs[CHOOSE i \in DOMAIN subs :
                 IsFailure(subs[i]) /\ \A j \in 1..(i - 1) : ~IsFailure(subs[j])]
    ELSE field

\* is_basic of the constructor's own arguments: a token that is no Field
\* instance has no collapse attribute
is_basic_token(items) ==
    \A i \in DOMAIN items :
        items[i].tok = "TextField()" /\ is_basic(<<ScalarField("text")>>)

RECURSIVE parse(_)
RECURSIVE klass_parse(_, _)
RECURSIVE try_TYPE_ORDER(_, _)

klass_parse(klass, obj) ==
    IF klass = "any"
    THEN IF obj.tok = "None" THEN ScalarField("any") ELSE NoField
    ELSE IF klass = "list"
         THEN IF obj.tok = "list" /\ Len(obj.items) < 2
              THEN IF Len(obj.items) = 0 THEN ListField(ScalarField("any"))
                   ELSE Lifted(<<parse(obj.items[1])>>, ListField(parse(obj.items[1])))
              ELSE IF (obj.tok = "set" /\ obj.items = <<>>) \/ obj.tok = "list_type"
                   THEN ListField(ScalarField("any"))
              ELSE NoField
    ELSE IF klass = "set"
         THEN IF obj.tok = "set" /\ Len(obj.items) < 2
              THEN IF Len(obj.items) = 0 THEN SetField(ScalarField("any"))
                   ELSE Failed("TypeError")        \* obj[0] of a set
              ELSE IF obj.tok = "set_type" THEN SetField(ScalarField("any"))
              ELSE NoField
    ELSE IF klass = "fixed"
         THEN IF obj.tok = "list" /\ Len(obj.items) > 1
              THEN Lifted([i \in DOMAIN obj.items |-> parse(obj.items[i])],
                          [FixedListField([i \in DOMAIN obj.items |->
                                             parse(obj.items[i])])
                             EXCEPT !.basic = is_basic_token(obj.items)])
              ELSE NoField
    ELSE IF klass = "dict"
         THEN IF obj.tok = "dict"
              THEN IF Len(obj.items) = 0
                   THEN DictField(ScalarField("any"), ScalarField("any"))
                   ELSE IF Len(obj.items) = 2
                        THEN Lifted(<<parse(obj.items[1]), parse(obj.items[2])>>,
                                    DictField(parse(obj.items[1]), parse(obj.items[2])))
                   ELSE NoField
              ELSE IF obj.tok = "dict_type"
                   THEN DictField(ScalarField("any"), ScalarField("any"))
              ELSE NoField
    ELSE IF klass = "doc"
         THEN IF obj.tok = "Entity" THEN DocumentField
              ELSE IF obj.tok \in Classes_ THEN NoField
              ELSE Failed("TypeError")             \* issubclass of no class
    ELSE IF obj.tok \in _TYPES(klass) THEN ScalarField(klass)
    ELSE NoField

try_TYPE_ORDER(obj, i) ==
    IF i > Len(TYPE_ORDER) THEN Failed("ValueError")
    ELSE IF klass_parse(TYPE_ORDER[i], obj) # NoField
         THEN klass_parse(TYPE_ORDER[i], obj)
    ELSE try_TYPE_ORDER(obj, i + 1)

parse(obj) ==
    IF obj.tok = "TextField()" THEN ScalarField("text")
    ELSE try_TYPE_ORDER(obj, 1)

\* self.default of a descriptor built without a default: _DEFAULT of the
\* class, the made elements of a fixed list, doc_type() of a document field
RECURSIVE default(_)
default(field) ==
    IF field.kind = "list" THEN List(<<>>)
    ELSE IF field.kind = "set" THEN SetOf(<<>>)
    ELSE IF field.kind = "fixed"
         THEN List([i \in DOMAIN field.sub |-> default(field.sub[i])])
    ELSE IF field.kind = "dict" THEN Dict(<<>>)
    ELSE IF field.kind = "bool" THEN Bool(FALSE)
    ELSE IF field.kind = "blob" THEN Bytes("")
    ELSE IF field.kind = "text" THEN Text("")
    ELSE IF field.kind = "int" THEN Num(0)
    ELSE IF field.kind = "float"
         THEN [kind |-> "float", n |-> 0, s |-> "", items |-> <<>>]
    ELSE IF field.kind = "doc" THEN SubDocument(<<>>)
    ELSE None                    \* Field, DatetimeField, ObjectIdField, UuidField

BaseTokens == {Token(t, <<>>) : t \in Classes_ \cup {"None", "5", "TextField()"}}

PairTokens == {Token(t, <<>>) : t \in {"bool", "datetime", "TextField()", "5"}}

Tokens ==
    BaseTokens
       \cup {Token("list", <<>>), Token("set", <<>>), Token("dict", <<>>)}
       \cup {Token("list", <<t>>) : t \in BaseTokens}
       \cup {Token("list", <<a, b>>) : a \in PairTokens, b \in PairTokens}
       \cup {Token("set", <<t>>) : t \in PairTokens}
       \cup {Token("dict", <<k, v>>) : k \in PairTokens, v \in PairTokens}
       \cup {Token("dict", <<Token("unicode", <<>>), Token("int", <<>>),
                            Token("str", <<>>), Token("int", <<>>)>>),
             Token("list", <<Token("list", <<Token("int", <<>>)>>)>>),
             Token("list", <<Token("dict", <<>>)>>)}

Parsed(op, token, field, made, err) ==
    [op |-> op, token |-> token, field |-> field, made |-> made, err |-> err]

InitParse ==
    /\ Init!1
    /\ Init!2
    /\ Init!3
    /\ Init!4
    /\ Init!5
    /\ Init!6
    /\ Init!7
    /\ Init!8
    /\ Init!9
    /\ Init!10
    /\ Init!12
    /\ Init!13
    /\ Init!14
    /\ Init!15
    /\ Init!16
    /\ \E token \in Tokens : fcheck = Parsed("token", token, NoField, None, "")

\* parse(token) as the type definition calls it
Parse ==
    /\ fcheck.op = "token"
    /\ fcheck' = Parsed("parsed", fcheck.token, parse(fcheck.token), None, "")
    /\ UNCHANGED <<attributes, dirty_fields, ops, db, nextOid, wrappers, hist, last,
                   cls, alive, aux>>

\* field.validate(field.make())
Make ==
    /\ fcheck.op = "parsed"
    /\ ~IsFailure(fcheck.field)
    /\ fcheck' = Parsed("made", fcheck.token, fcheck.field, default(fcheck.field),
                        validate(fcheck.field, default(fcheck.field)))
    /\ UNCHANGED <<attributes, dirty_fields, ops, db, nextOid, wrappers, hist, last,
                   cls, alive, aux>>

NextParse ==
    \/ Parse
    \/ Make

SpecParse == InitParse /\ [][NextParse]_vars

(***************************************************************************)
(* Type declaration (DocumentMeta.__new__).  attrs is the class body: its  *)
(* structure, default_values and field_map (maps of canonical names), its  *)
(* required names, and has, the names the body defines.  A class is its    *)
(* method resolution order, the attrs of the class itself first; a class   *)
(* attribute is read from the first attrs of the order that define it.     *)
(***************************************************************************)
Attrs(structure_, default_values_, field_map_, required_, has) ==
    [structure |-> structure_, default_values |-> default_values_,
     field_map |-> field_map_, required |-> required_, has |-> has]

\* class Document: structure = {'_id': ObjectId}, the other tables empty
DocumentClass ==
    [mro |-> <<Attrs(Put(EmptyMap, "_id", "ObjectId"), EmptyMap, EmptyMap, {},
                     {"structure", "default_values", "field_map", "required"})>>]

NoClass == [mro |-> <<>>]

\* getattr(klass, name)
class_attr(klass, name) ==
    klass.mro[CHOOSE i \in DOMAIN klass.mro :
                 /\ name \in klass.mro[i].has
                 /\ \A j \in 1..(i - 1) : name \notin klass.mro[j].has][name]

\* d = parent_table.copy(); d.update(obj_table)
updated_parent_wins(parent_table, obj_table) ==
    [k \in DOMAIN parent_table \cup DOMAIN obj_table |->
        IF k \in DOMAIN parent_table THEN parent_table[k] ELSE obj_table[k]]

updated(parent_table, obj_table) ==
    [k \in DOMAIN parent_table \cup DOMAIN obj_table |->
        IF k \in DOMAIN obj_table THEN obj_table[k] ELSE parent_table[k]]

with_structure(parent, attrs) ==
    IF "structure" \notin attrs.has /\ DOMAIN class_attr(parent, "structure") # {}
    THEN [attrs EXCEPT !.structure = class_attr(parent, "structure"),
                       !.has = @ \cup {"structure"}]
    ELSE [attrs EXCEPT !.structure = updated(class_attr(parent, "structure"), @),
                       !.has = @ \cup {"structure"}]

with_default_values(parent, attrs) ==
    IF DOMAIN class_attr(parent, "default_values") # {}
    THEN [attrs EXCEPT
            !.default_values = updated(class_attr(parent, "default_values"), @),
            !.has = @ \cup {"default_values"}]
    ELSE attrs

with_field_map(parent, attrs) ==
    IF "field_map" \notin attrs.has /\ DOMAIN class_attr(parent, "field_map") # {}
    THEN [attrs EXCEPT !.field_map = class_attr(parent, "field_map"),
                       !.has = @ \cup {"field_map"}]
    ELSE [attrs EXCEPT !.field_map = updated(class_attr(parent, "field_map"), @),
                       !.has = @ \cup {"field_map"}]

\* attrs.get('required') is false for a body without required and for []
with_required(parent, attrs) ==
    IF "required" \in attrs.has /\ attrs.required # {}
    THEN [attrs EXCEPT !.required = class_attr(parent, "required") \cup @]
    ELSE attrs

\* the body of the loop over bases
for_base(parent, attrs) ==
    with_required(parent,
        with_field_map(parent,
            with_default_values(parent, with_structure(parent, attrs))))

RECURSIVE for_bases(_, _)
for_bases(bases, attrs) ==
    IF bases = <<>> THEN attrs
    ELSE for_bases(Tail(bases), for_base(Head(bases), attrs))

\* the order of type.__new__: one base hands down its own order, several
\* bases that derive from Document directly come in turn before Document
mro_of_bases(bases) ==
    IF Len(bases) = 1 THEN bases[1].mro
    ELSE [i \in DOMAIN bases |-> bases[i].mro[1]] \o DocumentClass.mro

\* DocumentMeta.__new__(cls, name, bases, attrs)
__new__(bases, attrs) == [mro |-> <<for_bases(bases, attrs)>> \o mro_of_bases(bases)]

\* the class bodies
Bodies ==
    {Attrs(EmptyMap, EmptyMap, EmptyMap, {}, {}),
     Attrs(Put(EmptyMap, "a", "int"), Put(EmptyMap, "a", 1), Put(EmptyMap, "a", "x"),
           {"a"}, {"structure", "default_values", "field_map", "required"}),
     Attrs(Put(Put(EmptyMap, "a", "unicode"), "b", "int"), Put(EmptyMap, "b", 2),
           Put(EmptyMap, "b", "y"), {"b"},
           {"structure", "default_values", "field_map", "required"}),
     Attrs(Put(EmptyMap, "b", "int"), EmptyMap, EmptyMap, {}, {"structure"}),
     Attrs(Put(EmptyMap, "a", "int"), EmptyMap, EmptyMap, {},
           {"structure", "required"})}

\* the classes that derive from Document directly, and those one further down
DirectClasses == {__new__(<<DocumentClass>>, attrs) : attrs \in Bodies}

ChainClasses == {__new__(<<base>>, attrs) : base \in DirectClasses, attrs \in Bodies}

BaseLists ==
    {<<base>> : base \in DirectClasses \cup ChainClasses}
       \cup {<<b1, b2>> : b1 \in DirectClasses, b2 \in DirectClasses}

Declaration(op, bases, attrs, ncls) ==
    [op |-> op, bases |-> bases, attrs |-> attrs, ncls |-> ncls]

InitMeta ==
    /\ Init!1
    /\ Init!2
    /\ Init!3
    /\ Init!4
    /\ Init!5
    /\ Init!6
    /\ Init!7
    /\ Init!8
    /\ Init!9
    /\ Init!10
    /\ Init!12
    /\ Init!13
    /\ Init!14
    /\ Init!15
    /\ Init!16
    /\ \E bases \in BaseLists : \E attrs \in Bodies :
          fcheck = Declaration("class", bases, attrs, NoClass)

\* class name(bases): attrs
Declare ==
    /\ fcheck.op = "class"
    /\ fcheck' = Declaration("declared", fcheck.bases, fcheck.attrs,
                             __new__(fcheck.bases, fcheck.attrs))
    /\ UNCHANGED <<attributes, dirty_fields, ops, db, nextOid, wrappers, hist, last,
                   cls, alive, aux>>

NextMeta == Declare

SpecMeta == InitMeta /\ [][NextMeta]_vars

(***************************************************************************)
(* SpecOps: add_to_set, push and pull on the list field, with single       *)
(* values and lists of values; a save is explored on an empty store with   *)
(* at most one call pending, and the calls go on after it.                 *)
(***************************************************************************)
Operands == {Num(8), List(<<7, 8>>)}

NextOps ==
    \/ \E key \in ListKeys : \E value \in Operands : AddToSet(key, value)
    \/ \E key \in ListKeys : \E value \in Operands : Push(key, value)
    \/ \E key \in ListKeys : \E value \in Operands : Pull(key, value)
    \/ Set("name", Text("x"))
    \/ \E store_ok \in BOOLEAN :
          Len(hist) <= 1 /\ db = EmptyMap /\ Save("pass", store_ok)

SpecOps == Init /\ [][NextOps]_vars

(***************************************************************************)
(* SpecRace: two instances of the entity type hold the identity of one     *)
(* stored document.  The caller acts on one instance at a time, other is   *)
(* the instance it is not acting on; a save is one find_and_modify round   *)
(* trip, so the steps of the two instances interleave in every order.      *)
(* hist is here the list of the mutation calls of both instances.          *)
(***************************************************************************)
StoredDocument ==
    [k \in {"_id", "n", "seq", "events"} |->
        IF k = "_id" THEN ObjectId(1)
        ELSE IF k = "n" THEN Text("x")
        ELSE IF k = "seq" THEN Num(5)
        ELSE List(<<7>>)]

\* both instances are built from the stored document, Document(doc=...)
InitRace ==
    /\ cls = "Counter"
    /\ Constructed(Document(StoredDocument))
    /\ other = Document(StoredDocument).self
    /\ db = [i \in {1} |-> StoredDocument]
    /\ nextOid = 2
    /\ wrappers = <<>>
    /\ hist = <<>>
    /\ last = Outcome("load", "", None, "", <<>>, <<>>, NoSelf, <<>>, TRUE)
    /\ alive = TRUE
    /\ fcheck = NoCheck
    /\ heap = NoHeap
    /\ shared = EmptyMap
    /\ population = <<>>
    /\ generator = NoGenerator

\* the caller turns to the other instance
Switch ==
    /\ Become(other)
    /\ other' = Self
    /\ last' = Outcome("switch", "", None, "", <<>>, <<>>, Self, hist, TRUE)
    /\ UNCHANGED <<db, nextOid, wrappers, hist, cls, alive, fcheck, heap, shared,
                   population, generator>>

\* save() of the instance the caller acts on
RaceSave(store_ok) ==
    /\ alive
    /\ has_id(Self)
    /\ Become(save(Self, db, "pass", store_ok, nextOid).self)
    /\ db' = save(Self, db, "pass", store_ok, nextOid).db
    /\ last' = Outcome("save", "", None, save(Self, db, "pass", store_ok, nextOid).err,
                       save(Self, db, "pass", store_ok, nextOid).trace,
                       save(Self, db, "pass", store_ok, nextOid).calls,
                       Self, hist, store_ok)
    /\ UNCHANGED <<nextOid, wrappers, hist, cls, alive, fcheck, aux>>

NextRace ==
    \/ \E value \in {Text("x"), Text("y")} : Set("name", value)
    \/ Inc("seq", 3)
    \/ Push("events", Num(8))
    \/ AddToSet("events", List(<<7, 8>>))
    \/ Pull("events", Num(7))
    \/ Switch
    \/ \E store_ok \in BOOLEAN : RaceSave(store_ok)

SpecRace == InitRace /\ [][NextRace]_vars

(***************************************************************************)
(* Several entity types and the inverse of their short-name mappings.      *)
(* No entity type gets an inverse_field_map of its own: the metaclass      *)
(* fills db_name_to_field, and every type reads the dictionary of the      *)
(* class Document, shared, which the constructor of every instance fills   *)
(* from the field_map of its own type.                                     *)
(***************************************************************************)
EntityTypes == {"Person", "Product", "Note"}

\* Person stores name as n, Product stores number as n and title as t,
\* Note declares no short names
field_map_of(type) ==
    IF type = "Person" THEN [name |-> "n"]
    ELSE IF type = "Product" THEN [number |-> "n", title |-> "t"]
    ELSE EmptyMap

\* self.long_to_short(long_key) of an instance of type
long_to_short_of(type, long_key) ==
    IF long_key \in DOMAIN field_map_of(type) THEN field_map_of(type)[long_key]
    ELSE long_key

\* self.short_to_long(short_key): self.inverse_field_map.get(short_key, short_key)
short_to_long_in(inverse, short_key) ==
    IF short_key \in DOMAIN inverse THEN inverse[short_key] ELSE short_key

\* for k in self.field_map: self.inverse_field_map[self.field_map[k]] = k
inverse_filled(inverse, type) ==
    [v \in DOMAIN inverse \cup {field_map_of(type)[k] : k \in DOMAIN field_map_of(type)} |->
        IF \E k \in DOMAIN field_map_of(type) : field_map_of(type)[k] = v
        THEN CHOOSE k \in DOMAIN field_map_of(type) : field_map_of(type)[k] = v
        ELSE inverse[v]]

\* load_attr_dict: the keys of doc under their canonical names
loaded_keys(inverse, doc) ==
    [k \in {short_to_long_in(inverse, sk) : sk \in DOMAIN doc} |->
        doc[CHOOSE sk \in DOMAIN doc : short_to_long_in(inverse, sk) = k]]

Instance(type, attrs) == [type |-> type, attributes |-> attrs]

StorageDocs ==
    {EmptyMap, [n |-> Text("x")], [t |-> Text("y")], [n |-> Text("x"), t |-> Text("y")]}

InitShared ==
    /\ Init!1
    /\ Init!2
    /\ Init!3
    /\ Init!4
    /\ Init!5
    /\ Init!6
    /\ Init!7
    /\ Init!8
    /\ Init!9
    /\ Init!10
    /\ Init!11
    /\ Init!12
    /\ Init!13
    /\ Init!14
    /\ Init!15
    /\ Init!16

\* type(doc=doc)
ConstructOf(type, doc) ==
    /\ Len(population) < MaxInstances
    /\ shared' = inverse_filled(shared, type)
    /\ population' = Append(population,
                            Instance(type, loaded_keys(inverse_filled(shared, type), doc)))
    /\ UNCHANGED <<attributes, dirty_fields, ops, db, nextOid, wrappers, hist, last,
                   cls, alive, fcheck, heap, other, generator>>

\* population[i].load_dict(doc)
LoadInto(i, doc) ==
    /\ population' = [population EXCEPT ![i].attributes = loaded_keys(shared, doc)]
    /\ UNCHANGED <<attributes, dirty_fields, ops, db, nextOid, wrappers, hist, last,
                   cls, alive, fcheck, heap, other, shared, generator>>

NextShared ==
    \/ \E type \in EntityTypes : \E doc \in StorageDocs : ConstructOf(type, doc)
    \/ \E i \in DOMAIN population : \E doc \in StorageDocs : LoadInto(i, doc)

SpecShared == InitShared /\ [][NextShared]_vars

(***************************************************************************)
(* The wrappers of mapping and set values.  Document.__getattr__ hands out *)
(* a ChangeTrackingDict for a mapping-typed field and a plain set for a    *)
(* set-typed field; SetField.wrap builds a ChangeTrackingSet.  A mutator   *)
(* of ChangeTrackingDict notifies the parent first, through a weak proxy   *)
(* and with the field name alone, where Document._mark_as_changed takes    *)
(* the name and the value; a mutator of ChangeTrackingSet changes the set  *)
(* first and then has the parent set the field to the collapsed contents.  *)
(***************************************************************************)
Held(type, field, x) == [op |-> "held", type |-> type, field |-> field, x |-> x]

dict_has(d, k) == \E i \in DOMAIN d.items : d.items[i].items[1] = k

dict_without(d, k) ==
    LET Other(p) == p.items[1] # k
    IN  Dict(SelectSeq(d.items, Other))

dict_with(d, k, v) ==
    IF dict_has(d, k)
    THEN Dict([i \in DOMAIN d.items |->
                 IF d.items[i].items[1] = k THEN Pair(k, v) ELSE d.items[i]])
    ELSE Dict(Append(d.items, Pair(k, v)))

\* the mutators of dict: __setitem__(k, v), __delitem__(k), clear(), pop(k),
\* popitem(), update({k: v})
dict_base(method, d, k, v) ==
    IF method \in {"__setitem__", "update"} THEN [x |-> dict_with(d, k, v), err |-> ""]
    ELSE IF method \in {"__delitem__", "pop"}
         THEN IF dict_has(d, k) THEN [x |-> dict_without(d, k), err |-> ""]
              ELSE [x |-> d, err |-> "KeyError"]
    ELSE IF method = "clear" THEN [x |-> Dict(<<>>), err |-> ""]
    ELSE IF d.items = <<>> THEN [x |-> d, err |-> "KeyError"]
         ELSE [x |-> Dict(Tail(d.items)), err |-> ""]

set_has(s, o) == \E i \in DOMAIN s.items : s.items[i] = o

set_without(s, o) == SetOf(sorted({s.items[i] : i \in DOMAIN s.items} \ {o}))

\* the mutators of set on the element o (pop returns o) or the set {o}
set_base(method, s, o) ==
    IF method \in {"add", "update", "__ior__"}
    THEN [x |-> set_of(Append(s.items, o)), err |-> ""]
    ELSE IF method \in {"discard", "difference_update", "__isub__"}
         THEN [x |-> set_without(s, o), err |-> ""]
    ELSE IF method = "remove"
         THEN IF set_has(s, o) THEN [x |-> set_without(s, o), err |-> ""]
              ELSE [x |-> s, err |-> "KeyError"]
    ELSE IF method = "clear" THEN [x |-> SetOf(<<>>), err |-> ""]
    ELSE IF method = "pop"
         THEN IF s.items = <<>> THEN [x |-> s, err |-> "KeyError"]
              ELSE [x |-> set_without(s, o), err |-> ""]
    ELSE IF method \in {"intersection_update", "__iand__"}
         THEN [x |-> IF set_has(s, o) THEN SetOf(<<o>>) ELSE SetOf(<<>>), err |-> ""]
    ELSE [x |-> IF set_has(s, o) THEN set_without(s, o) ELSE set_of(Append(s.items, o)),
          err |-> ""]

DictMutators == {"__setitem__", "__delitem__", "clear", "pop", "popitem", "update"}

SetMutators ==
    {"add", "discard", "remove", "clear", "pop", "update", "__ior__", "__iand__",
     "__isub__", "__ixor__", "difference_update", "intersection_update",
     "symmetric_difference_update"}

Mutated(self, x, err) == [self |-> self, x |-> x, err |-> err]

\* ChangeTrackingDict._mark_as_changed: self._parent._mark_as_changed(self._name)
\* against Document._mark_as_changed(self, key, val)
dict_mark_as_changed(parent) ==
    IF hasattr_mark_as_changed THEN Raise(parent, "TypeError") ELSE Ok(parent)

\* a mutator of ChangeTrackingDict: self._mark_as_changed(), then dict's method
dict_mutator(parent, d, method, k, v) ==
    IF dict_mark_as_changed(parent).err # ""
    THEN Mutated(parent, d, dict_mark_as_changed(parent).err)
    ELSE Mutated(dict_mark_as_changed(parent).self, dict_base(method, d, k, v).x,
                 dict_base(method, d, k, v).err)

\* a mutator of ChangeTrackingSet: r = base(self, o), then self._set(); a
\* plain set has the base method alone
set_mutator(parent, type, field, s, method, o) ==
    IF set_base(method, s, o).err # "" THEN Mutated(parent, s, set_base(method, s, o).err)
    ELSE IF type = "ChangeTrackingSet"
         THEN Mutated(_set(parent, field, set_base(method, s, o).x).self,
                      set_base(method, s, o).x,
                      _set(parent, field, set_base(method, s, o).x).err)
    ELSE Mutated(parent, set_base(method, s, o).x, "")

\* Document.__getattr__ of a mapping-typed or set-typed field
getattr_container(self, field) ==
    IF field.field.kind = "set"
    THEN Held("set", field,
              IF field.name \in DOMAIN self.attributes
              THEN set_of(self.attributes[field.name].items) ELSE SetOf(<<>>))
    ELSE Held("ChangeTrackingDict", field,
              IF field.name \in DOMAIN self.attributes THEN self.attributes[field.name]
              ELSE Dict(<<>>))

\* SetField.wrap(value, obj) on the expanded value of the field
wrap(self, field) ==
    Held("ChangeTrackingSet", field,
         IF field.name \in DOMAIN self.attributes
         THEN expand(field.field, self.attributes[field.name]) ELSE SetOf(<<>>))

ContainerFields ==
    {Descriptor(DictField(ScalarField("text"), ScalarField("text")), "seq", FALSE, FALSE),
     Descriptor(SetField(ScalarField("int")), "seq", FALSE, FALSE)}

Routes(field) ==
    IF field.field.kind = "set" THEN {"Document.__getattr__", "SetField.wrap"}
    ELSE {"Document.__getattr__"}

\* the document as loaded with its field holding the collapsed value or
\* nothing, and the wrapper just read from it
LoadedWith(field, value) ==
    IF value = None THEN NoSelf
    ELSE [NoSelf EXCEPT !.attributes = [k \in {field.name} |-> collapse(field.field, value)]]

InitContainers ==
    /\ Init!2
    /\ Init!3
    /\ Init!4
    /\ Init!5
    /\ Init!6
    /\ Init!7
    /\ Init!8
    /\ Init!9
    /\ Init!10
    /\ Init!12
    /\ Init!13
    /\ Init!14
    /\ Init!15
    /\ Init!16
    /\ \E field \in ContainerFields : \E route \in Routes(field) :
          \E value \in AppValues(field.field) \cup {None} :
          /\ attributes = LoadedWith(field, value).attributes
          /\ fcheck = IF route = "SetField.wrap" THEN wrap(LoadedWith(field, value), field)
                      ELSE getattr_container(LoadedWith(field, value), field)

ContainerMutation(method, arg, r) ==
    /\ Len(hist) < MaxLen
    /\ Become(r.self)
    /\ fcheck' = [fcheck EXCEPT !.x = r.x]
    /\ hist' = Append(hist, Call(method, fcheck.field.name, arg, r.err))
    /\ last' = Outcome(method, fcheck.field.name, arg, r.err, <<>>, <<>>, Self, hist, TRUE)
    /\ UNCHANGED <<db, nextOid, wrappers, cls, alive, aux>>

DictMutate(method, k, v) ==
    /\ fcheck.type = "ChangeTrackingDict"
    /\ ContainerMutation(method, Pair(k, v), dict_mutator(Self, fcheck.x, method, k, v))

SetMutate(method, o) ==
    /\ fcheck.type \in {"ChangeTrackingSet", "set"}
    /\ method = "pop" /\ fcheck.x.items # <<>> => set_has(fcheck.x, o)
    /\ ContainerMutation(method, o,
                         set_mutator(Self, fcheck.type, fcheck.field, fcheck.x, method, o))

\* the last reference to the document is dropped; the ChangeTrackingDict
\* holds a weak proxy of it, the ChangeTrackingSet the document itself
Forget ==
    /\ alive
    /\ fcheck.type \in {"ChangeTrackingDict", "set"}
    /\ alive' = FALSE
    /\ last' = Outcome("del", "", None, "", <<>>, <<>>, Self, hist, TRUE)
    /\ UNCHANGED <<attributes, dirty_fields, ops, db, nextOid, wrappers, hist, cls,
                   fcheck, aux>>

NextContainers ==
    \/ \E method \in DictMutators : \E k \in {Text("a"), Text("b")} :
          \E v \in {Text("a")} : DictMutate(method, k, v)
    \/ \E method \in SetMutators : \E o \in {Num(1), Long(2)} : SetMutate(method, o)
    \/ Forget

SpecContainers == InitContainers /\ [][NextContainers]_vars

(***************************************************************************)
(* SequenceGenerator.get_next_index.  generator.docs is the sequence       *)
(* collection, generator.callers the call each caller has in progress and  *)
(* generator.returned the values returned so far, in the order of return.  *)
(* The collection has the index ensure_index("name") creates, which is not *)
(* unique.  The store applies the update of find_and_modify to a matching  *)
(* document in one step; an upsert whose query matched nothing inserts the *)
(* new document in a later step, whatever other upserts inserted in        *)
(* between.                                                                *)
(***************************************************************************)
Callers == {1, 2}
SeqNames == {"a", "b"}

Idle == [pc |-> "idle", seq_name |-> ""]

Counter(seq_name, n) == [name |-> seq_name, seq |-> n]

Returned(seq_name, new_id) == [name |-> seq_name, value |-> new_id]

matching(docs, seq_name) == {i \in DOMAIN docs : docs[i].name = seq_name}

\* the document the query selects: the first in the collection's order
found(docs, seq_name) ==
    CHOOSE i \in matching(docs, seq_name) : \A j \in matching(docs, seq_name) : i <= j

InitGenerator ==
    /\ Init!1
    /\ Init!2
    /\ Init!3
    /\ Init!4
    /\ Init!5
    /\ Init!6
    /\ Init!7
    /\ Init!8
    /\ Init!9
    /\ Init!10
    /\ Init!11
    /\ Init!12
    /\ Init!13
    /\ Init!14
    /\ Init!15
    /\ generator = [docs |-> <<>>, callers |-> [c \in Callers |-> Idle], returned |-> <<>>]

Others == <<attributes, dirty_fields, ops, db, nextOid, wrappers, hist, last, cls, alive,
            fcheck, heap, other, shared, population>>

\* the number of calls begun
Begun ==
    Len(generator.returned)
       + Cardinality({c \in Callers : generator.callers[c].pc # "idle"})

\* get_next_index(seq_name, ...) up to the find_and_modify request
get_next_index(c, seq_name) ==
    /\ generator.callers[c].pc = "idle"
    /\ Begun < MaxCalls
    /\ generator' = [generator EXCEPT !.callers[c] = [pc |-> "request", seq_name |-> seq_name]]
    /\ UNCHANGED Others

\* the store runs the query: a matching document is incremented and
\* returned, otherwise the upsert goes on to insert
find_and_modify_query(c) ==
    /\ generator.callers[c].pc = "request"
    /\ LET seq_name == generator.callers[c].seq_name
           docs == generator.docs
       IN  IF matching(docs, seq_name) # {}
           THEN generator' =
                   [docs |-> [docs EXCEPT ![found(docs, seq_name)].seq = @ + 1],
                    callers |-> [generator.callers EXCEPT ![c] = Idle],
                    returned |-> Append(generator.returned,
                                        Returned(seq_name,
                                                 docs[found(docs, seq_name)].seq + 1))]
           ELSE generator' = [generator EXCEPT !.callers[c].pc = "insert"]
    /\ UNCHANGED Others

\* the upsert inserts {name: seq_name, seq: 1} and the call returns 1
find_and_modify_insert(c) ==
    /\ generator.callers[c].pc = "insert"
    /\ generator' =
          [docs |-> Append(generator.docs, Counter(generator.callers[c].seq_name, 1)),
           callers |-> [generator.callers EXCEPT ![c] = Idle],
           returned |-> Append(generator.returned,
                               Returned(generator.callers[c].seq_name, 1))]
    /\ UNCHANGED Others

NextGenerator ==
    \/ \E c \in Callers : \E seq_name \in SeqNames : get_next_index(c, seq_name)
    \/ \E c \in Callers : find_and_modify_query(c)
    \/ \E c \in Callers : find_and_modify_insert(c)

SpecGenerator == InitGenerator /\ [][NextGenerator]_vars

(***************************************************************************)
(* Helpers of the properties.                                              *)
(***************************************************************************)
IsPrefix(p, q) == Len(p) <= Len(q) /\ SubSeq(q, 1, Len(p)) = p

RECURSIVE SumOfIncs(_, _)
SumOfIncs(calls, key) ==
    IF calls = <<>> THEN 0
    ELSE (IF calls[1].op = "inc" /\ calls[1].key = key /\ calls[1].err = ""
          THEN calls[1].val.n ELSE 0) + SumOfIncs(Tail(calls), key)

OnlyIncs(calls, key) ==
    /\ \E i \in DOMAIN calls : calls[i].op = "inc" /\ calls[i].key = key
    /\ \A i \in DOMAIN calls : calls[i].key = key => calls[i].op = "inc"

UnsetThenSet(key) ==
    /\ Len(hist) >= 2
    /\ hist[Len(hist) - 1] = Call("unset", key, None, "")
    /\ hist[Len(hist)].op = "set"
    /\ hist[Len(hist)].key = key
    /\ hist[Len(hist)].val # None

FullTrace(new) ==
    <<"pre_save", IF new THEN "pre_insert" ELSE "pre_update", "required",
      "find_and_modify", "load_dict", IF new THEN "post_insert" ELSE "post_update",
      "clear_ops", "post_save">>

RequiredError == "ValueError: required fields are missing"
NoIdentityError == "ValueError: document has no _id"

\* C1: after unset(key) then set(key, v), v non-null, with no save in between,
\* operations() holds key's storage name under $set with value v and holds no
\* $unset entry for key.
C1_SetAfterUnsetReplacesUnset ==
    \A key \in ScalarKeys :
       UnsetThenSet(key) =>
          /\ operations(Self).err = ""
          /\ long_to_short(key) \in DOMAIN operations(Self).doc["$set"]
          /\ operations(Self).doc["$set"][long_to_short(key)] = hist[Len(hist)].val
          /\ long_to_short(key) \notin operand_fields(operations(Self).doc, "$unset")

\* C2: after increments only on a key since the last save, the pending
\* operations hold one $inc operand for the key, the number that is the sum of
\* the deltas.
C2_IncrementsAreSummed ==
    \A key \in NumKeys :
       OnlyIncs(hist, key) =>
          /\ long_to_short(key) \in operand_fields(operations(Self).doc, "$inc")
          /\ operations(Self).doc["$inc"][long_to_short(key)]
                = Num(SumOfIncs(hist, key))

\* C3: after an append on the wrapper read from a list field, the field is
\* dirty, a new read of the field returns the wrapper's contents, and the
\* next $set carries them.
C3_WrapperMutationIsObserved ==
    last.op = "append" =>
       /\ last.key \in dirty_fields
       /\ getattr(Self, last.key).val = last.val
       /\ operations(Self).err = ""
       /\ operations(Self).doc["$set"][long_to_short(last.key)] = last.val

\* C4: a save of an entity with no dirty field and no pending operation
\* issues no store call.
C4_NothingPendingNoRoundTrip ==
    (/\ last.op = "save"
     /\ last.before.dirty_fields = {}
     /\ last.before.ops = EmptyMap) => last.calls = <<>>

\* C5: after a save whose upsert failed, attributes, dirty set and pending
\* operations are those of the moment the upsert was issued and operations()
\* is the operation document that was sent; after any failed save nothing of
\* the dirty set or the pending operations has been cleared.
C5_FailedUpsertKeepsState ==
    /\ (last.op = "save" /\ last.err = "OperationFailure") =>
          /\ Self = last.before
          /\ Len(last.calls) = 1
          /\ operations(Self).doc = last.calls[1].update
    /\ (last.op = "save" /\ last.err # "") =>
          /\ dirty_fields = last.before.dirty_fields
          /\ ops = last.before.ops

C5_Witness ==
    /\ last.op = "save"
    /\ last.err = "OperationFailure"
    /\ ~last.store_ok
    /\ ~rejected(last.calls[1].update)
    /\ last.before.dirty_fields # {}
    /\ last.before.ops # EmptyMap

\* C6: after a successful save the dirty set and the pending operations are
\* empty and the attributes are the load of the document the store returned.
C6_SuccessfulSaveClears ==
    (last.op = "save" /\ last.err = "") =>
       /\ dirty_fields = {}
       /\ ops = EmptyMap
       /\ Len(last.calls) = 1
       /\ attributes
            = load_dict(last.before, db[last.calls[1].query.n]).self.attributes

C6_Witness ==
    /\ last.op = "save"
    /\ last.err = ""
    /\ last.before.dirty_fields = {"name", "seq"}
    /\ attributes = [_id |-> ObjectId(1), name |-> Text("y"), seq |-> Num(5)]

\* C7: a save that finds a required field without a value after the pre-hooks
\* fails with the missing-required-fields error, issues no store call and
\* clears neither the dirty set nor the pending operations.
C7_MissingRequiredFails ==
    (last.op = "save" /\ ~(required \subseteq DOMAIN last.before.attributes)) =>
       /\ last.err = RequiredError
       /\ last.calls = <<>>
       /\ Self = last.before

C7_Witness ==
    /\ last.op = "save"
    /\ last.err = RequiredError
    /\ last.before.dirty_fields = {"seq"}
    /\ "$inc" \in DOMAIN last.before.ops

C9_InsertAssignsIdentity ==
    (last.op = "save" /\ last.err = "" /\ ~has_id(last.before)) =>
       /\ has_id(Self)
       /\ attributes["_id"] = last.calls[1].query
       /\ attributes["_id"] = ObjectId(nextOid - 1)
       /\ delete(Self).err # NoIdentityError
       /\ save(Self, db, "pass", TRUE, nextOid).trace[2] = "pre_update"
       /\ save(Self, db, "pass", TRUE, nextOid).calls[1].query = attributes["_id"]

C9_Witness ==
    /\ last.op = "save"
    /\ last.err = ""
    /\ ~has_id(last.before)
    /\ delete(last.before).err = NoIdentityError

\* C10: a new entity with name set to x and one increment of seq by 5 saves
\* with one upsert {$set: {name: x}, $inc: {seq: 5}} against the generated
\* identity, and seq then reads 5.
C10_EndToEnd ==
    (/\ last.op = "save"
     /\ last.store_ok
     /\ last.pending = <<Call("set", "name", Text("x"), ""),
                         Call("inc", "seq", Num(5), "")>>
     /\ ~has_id(last.before)) =>
       /\ Len(last.calls) = 1
       /\ last.calls[1].query.kind = "oid"
       /\ last.calls[1].update
            = [o \in {"$set", "$inc"} |->
                 IF o = "$set" THEN [k \in {long_to_short("name")} |-> Text("x")]
                 ELSE [k \in {"seq"} |-> Num(5)]]
       /\ getattr(Self, "seq").val = Num(5)

SetThenUnset(key) ==
    /\ Len(hist) >= 2
    /\ hist[Len(hist) - 1].op = "set"
    /\ hist[Len(hist) - 1].key = key
    /\ hist[Len(hist) - 1].val # None
    /\ hist[Len(hist) - 1].err = ""
    /\ hist[Len(hist)] = Call("unset", key, None, "")

\* C11: after set(key, v), v non-null, then unset(key) with no save in
\* between, key is not in the dirty set, operations() can be computed, and it
\* lists key's storage name under $unset and not under $set.
C11_UnsetAfterSetClearsDirty ==
    \A key \in ScalarKeys :
       SetThenUnset(key) =>
          /\ key \notin dirty_fields
          /\ operations(Self).err = ""
          /\ long_to_short(key) \in operand_fields(operations(Self).doc, "$unset")
          /\ long_to_short(key) \notin operand_fields(operations(Self).doc, "$set")

\* C12: in every reachable state no field is both listed under $unset in the
\* pending operations and present in attributes.
C12_UnsetFieldsHaveNoValue ==
    \A key \in DOMAIN attributes :
       long_to_short(key) \notin operand_fields(ops, "$unset")

\* C16: delete() on an entity without identity fails with the no-identity
\* error and issues no store call; on an entity with an identity it issues
\* exactly one removal whose query is that identity and fails only when the
\* store does.
C16_DeleteIssuesOneRemoval ==
    last.op = "delete" =>
       /\ ~has_id(last.before) => (last.err = NoIdentityError /\ last.calls = <<>>)
       /\ has_id(last.before) =>
             /\ Len(last.calls) = 1
             /\ last.calls[1].method = "remove"
             /\ last.calls[1].query = last.before.attributes["_id"]
             /\ last.err \in {"", "OperationFailure"}
\* C13: once the instance holds an identity, no attribute assignment, set,
\* unset or save changes or removes it.
C13_IdentityIsImmutable ==
    [][has_id(Self) =>
          /\ "_id" \in DOMAIN attributes'
          /\ attributes'["_id"] = attributes["_id"]]_vars
\* The storage document the instance was constructed from.
Loaded == IF 1 \in DOMAIN db THEN db[1] ELSE EmptyMap

DefaultsFilled == DOMAIN default_values \ {short_to_long(k) : k \in DOMAIN Loaded}

\* C14 as stated: after the load at construction and after the reload of a
\* save, the dirty set and the pending operations are both empty, also when
\* fields were filled from defaults.
C14_LoadLeavesNothingPending ==
    (last.op = "load" \/ (last.op = "save" /\ last.err = "")) =>
       (dirty_fields = {} /\ ops = EmptyMap)

\* C14 as amended: after the load at construction the pending operations are
\* empty and the dirty set holds exactly the fields filled from defaults;
\* after a successful save, reload included, both are empty.
C14_LoadMarksDefaultsDirty ==
    /\ last.op = "load" => (ops = EmptyMap /\ dirty_fields = DefaultsFilled)
    /\ (last.op = "save" /\ last.err = "") => (dirty_fields = {} /\ ops = EmptyMap)

C14_Witness ==
    /\ last.op = "load"
    /\ Loaded # EmptyMap
    /\ dirty_fields = {"events"}
    /\ attributes["events"] = List(<<>>)

WrapperMutation == last.op \in {"append", "pop"}

\* C17: a mutating operation on a wrapper whose owning document no longer
\* exists fails with an error.
C17_OrphanWrapperFails ==
    (WrapperMutation /\ ~alive) => last.err # ""

\* C18: a wrapper mutator whose underlying operation fails leaves the
\* document's dirty set and attributes unchanged.
C18_FailedMutatorLeavesDocument ==
    (WrapperMutation /\ last.err # "") =>
       /\ dirty_fields = last.before.dirty_fields
       /\ attributes = last.before.attributes
\* C20: for every kind of field and every valid application value x, neither
\* collapse nor expand fails, expand(collapse(x)) equals x, and collapsing the
\* expansion of the storage form collapse(x) gives that storage form back.
C20_ExpandCollapseAreInverses ==
    fcheck.op = "converted" =>
       /\ fcheck.collapsed.kind # "raise"
       /\ fcheck.expanded.kind # "raise"
       /\ fcheck.recollapsed.kind # "raise"
       /\ py_eq(fcheck.expanded, fcheck.x)
       /\ py_eq(fcheck.recollapsed, fcheck.collapsed)
\* the value is the storage form of a value of the field
RECURSIVE IsStorageForm(_, _)
IsStorageForm(field, v) ==
    IF field.kind = "blob" THEN v.kind = "binary"
    ELSE IF field.kind = "int" THEN v.kind = "long"
    ELSE IF field.kind = "doc" THEN v.kind = "dict"
    ELSE IF field.kind \in {"list", "set"}
         THEN /\ v.kind = "list"
              /\ (field.kind = "list" /\ field.basic)
                    \/ \A i \in DOMAIN v.items : IsStorageForm(field.sub[1], v.items[i])
    ELSE IF field.kind = "fixed"
         THEN /\ v.kind = "list"
              /\ \A i \in DOMAIN v.items : IsStorageForm(field.sub[i], v.items[i])
    ELSE IF field.kind = "dict"
         THEN /\ v.kind = "dict"
              /\ field.basic
                    \/ \A i \in DOMAIN v.items :
                          /\ IsStorageForm(field.sub[1], v.items[i].items[1])
                          /\ IsStorageForm(field.sub[2], v.items[i].items[2])
    ELSE TRUE

\* the value is the application form of a value of the field
RECURSIVE IsApplicationForm(_, _)
IsApplicationForm(field, v) ==
    IF field.kind = "blob" THEN v.kind = "bytes"
    ELSE IF field.kind = "doc" THEN v.kind = "doc"
    ELSE IF field.kind = "set"
         THEN /\ v.kind = "set"
              /\ \A i \in DOMAIN v.items : IsApplicationForm(field.sub[1], v.items[i])
    ELSE IF field.kind = "list"
         THEN /\ v.kind = "list"
              /\ \A i \in DOMAIN v.items : IsApplicationForm(field.sub[1], v.items[i])
    ELSE IF field.kind = "fixed"
         THEN /\ v.kind = "list"
              /\ \A i \in DOMAIN v.items : IsApplicationForm(field.sub[i], v.items[i])
    ELSE IF field.kind = "dict"
         THEN /\ v.kind = "dict"
              /\ \A i \in DOMAIN v.items :
                    /\ IsApplicationForm(field.sub[1], v.items[i].items[1])
                    /\ IsApplicationForm(field.sub[2], v.items[i].items[2])
    ELSE TRUE

Stored ==
    /\ fcheck.op \in {"assign", "add"}
    /\ fcheck.x # None
    /\ last.err = ""

RECURSIVE Reachable(_)
Reachable(id) ==
    {id} \cup UNION {Reachable(heap.objects[id].items[k].n) :
                        k \in {j \in DOMAIN heap.objects[id].items :
                                  heap.objects[id].items[j].ref}}

OfTable == UNION {Reachable(heap.table[k]) : k \in DOMAIN heap.table}

OfInstance(i) ==
    UNION {Reachable(heap.instances[i][k]) : k \in DOMAIN heap.instances[i]}

\* C21: the values bound to an instance's defaulted fields share no object
\* with the default table or with another instance, every construction
\* succeeds, and the objects of the default table keep their initial contents.
C21_DefaultsNeverAlias ==
    /\ heap.err = ""
    /\ \A i \in DOMAIN heap.instances :
          /\ OfInstance(i) \cap OfTable = {}
          /\ \A j \in DOMAIN heap.instances :
                i # j => OfInstance(i) \cap OfInstance(j) = {}
    /\ \E t \in DefaultTables :
          /\ heap.table = t.table
          /\ SubSeq(heap.objects, 1, Len(t.objects)) = t.objects
\* C22: validate accepts the value made by a descriptor that was built without
\* a default of the user.
C22_ValidateAcceptsOwnDefault == fcheck.op = "made" => fcheck.err = ""

\* the kinds that accept a token: their parse returns a descriptor
Accepting(obj) ==
    {i \in DOMAIN TYPE_ORDER :
        /\ klass_parse(TYPE_ORDER[i], obj) # NoField
        /\ ~IsFailure(klass_parse(TYPE_ORDER[i], obj))}

\* C23: parse returns the descriptor of the first kind of TYPE_ORDER that
\* accepts the token, and ends in ValueError when no kind accepts it.
C23_FirstMatchOrUnparseable ==
    (fcheck.op = "parsed" /\ fcheck.token.tok # "TextField()") =>
        IF Accepting(fcheck.token) = {}
        THEN fcheck.field = Failed("ValueError")
        ELSE \E i \in Accepting(fcheck.token) :
                /\ \A j \in Accepting(fcheck.token) : i <= j
                /\ fcheck.field = klass_parse(TYPE_ORDER[i], fcheck.token)

\* the descriptor with the shortcut switched off: every element is mapped
Mapped(field) == [field EXCEPT !.basic = FALSE]

\* C24: for list, fixed list and mapping descriptors, collapse and expand
\* give the same result with the basic shortcut and with the element
\* descriptors mapped over every element, and a descriptor is basic only
\* when the collapse and expand of its element descriptors are the identity.
C24_ShortcutChangesNothing ==
    (fcheck.op = "converted" /\ fcheck.field.kind \in {"list", "fixed", "dict"}) =>
        /\ fcheck.collapsed = collapse(Mapped(fcheck.field), fcheck.x)
        /\ fcheck.expanded = expand(Mapped(fcheck.field), fcheck.collapsed)
        /\ fcheck.field.basic =>
              \A i \in DOMAIN fcheck.field.sub :
                 \A v \in AppValues(fcheck.field.sub[i]) :
                    /\ collapse(fcheck.field.sub[i], v) = v
                    /\ expand(fcheck.field.sub[i], v) = v
Tables == {"structure", "default_values", "field_map"}

OfBases(table) ==
    UNION {DOMAIN class_attr(fcheck.bases[i], table) : i \in DOMAIN fcheck.bases}

\* C25: each of structure, default_values and field_map of a declared type
\* holds the names of all its bases and of its own body; a name of the body
\* has the body's entry, any other name the entry of a base.
C25_TablesAreUnionWithOverrides ==
    fcheck.op = "declared" =>
        \A table \in Tables :
            /\ DOMAIN class_attr(fcheck.ncls, table)
                  = OfBases(table) \cup DOMAIN fcheck.attrs[table]
            /\ \A k \in DOMAIN class_attr(fcheck.ncls, table) :
                  IF k \in DOMAIN fcheck.attrs[table]
                  THEN class_attr(fcheck.ncls, table)[k] = fcheck.attrs[table][k]
                  ELSE \E i \in DOMAIN fcheck.bases :
                          /\ k \in DOMAIN class_attr(fcheck.bases[i], table)
                          /\ class_attr(fcheck.ncls, table)[k]
                                = class_attr(fcheck.bases[i], table)[k]

\* a type of two bases declared: its body overrides the descriptor of a base
\* and a base brings a name the body does not define
C25_Witness ==
    /\ fcheck.op = "declared"
    /\ Len(fcheck.bases) = 2
    /\ \E k \in DOMAIN fcheck.attrs.structure :
          /\ k \in DOMAIN class_attr(fcheck.bases[1], "structure")
          /\ class_attr(fcheck.bases[1], "structure")[k] # fcheck.attrs.structure[k]
    /\ OfBases("structure") \ DOMAIN fcheck.attrs.structure # {"_id"}
    /\ OfBases("default_values") \ DOMAIN fcheck.attrs.default_values # {}

\* two bases define the same name with different descriptors
Colliding ==
    \E i, j \in DOMAIN fcheck.bases :
       \E k \in DOMAIN class_attr(fcheck.bases[i], "structure") :
          /\ i # j
          /\ k \in DOMAIN class_attr(fcheck.bases[j], "structure")
          /\ class_attr(fcheck.bases[i], "structure")[k]
                # class_attr(fcheck.bases[j], "structure")[k]

\* C26: declaring a type whose bases define one name with different
\* descriptors produces no type.
C26_CollidingBasesFail ==
    (fcheck.op = "declared" /\ Colliding) => fcheck.ncls = NoClass

\* C27: the required names of a declared type are those of all its bases
\* and of its own body.
C27_RequiredIsUnion ==
    fcheck.op = "declared" =>
        class_attr(fcheck.ncls, "required")
           = fcheck.attrs.required
                \cup UNION {class_attr(fcheck.bases[i], "required") :
                               i \in DOMAIN fcheck.bases}
\* C28: a typed assignment through a descriptor either fails at the
\* read-only, write-once or validate check, or succeeds; a failed one leaves
\* attributes, the dirty set and the pending operations as they were, and a
\* successful one of a non-null value leaves the field dirty, holding the
\* value in the form the descriptor stores.
C28_AssignmentIsAllOrNothing ==
    [][last'.op = "assign" =>
          /\ last'.err \in {"", "ValidationError", "AttributeError"}
          /\ last'.err # "" => UNCHANGED <<attributes, dirty_fields, ops>>
          /\ (last'.err = "" /\ fcheck'.x # None) =>
                /\ last'.key \in dirty_fields'
                /\ attributes'[last'.key] = collapse(fcheck'.field, fcheck'.x)]_vars

\* the operands of the successful calls of op on key, in call order
RECURSIVE Enqueued(_, _, _)
Enqueued(calls, op, key) ==
    IF calls = <<>> THEN <<>>
    ELSE (IF calls[1].op = op /\ calls[1].key = key /\ calls[1].err = ""
          THEN IF calls[1].val.kind = "list" THEN calls[1].val.items
               ELSE <<calls[1].val.n>>
          ELSE <<>>) \o Enqueued(Tail(calls), op, key)

\* the operand that is pending for key under operator o
Pending(o, key) ==
    IF o \in DOMAIN ops /\ long_to_short(key) \in DOMAIN ops[o]
    THEN ops[o][long_to_short(key)]
    ELSE None

\* C29: the operand pending for a key under $addToSet is the $each list, and
\* under $pushAll and $pullAll the plain list, of the values of all the
\* add_to_set, push and pull calls on the key since the last save, in call
\* order.
C29_OperandsAccumulate ==
    \A key \in ListKeys :
       /\ Enqueued(hist, "addToSet", key) # <<>> =>
             Pending("$addToSet", key) = Each(Enqueued(hist, "addToSet", key))
       /\ Enqueued(hist, "push", key) # <<>> =>
             Pending("$pushAll", key) = List(Enqueued(hist, "push", key))
       /\ Enqueued(hist, "pull", key) # <<>> =>
             Pending("$pullAll", key) = List(Enqueued(hist, "pull", key))

\* two add_to_set calls and a push on the same key since the last save
C29_Witness ==
    /\ Len(hist) = 3
    /\ hist[1] = Call("addToSet", "events", Num(8), "")
    /\ hist[2] = Call("addToSet", "events", List(<<7, 8>>), "")
    /\ hist[3] = Call("push", "events", Num(8), "")
    /\ Pending("$addToSet", "events") = Each(<<8, 7, 8>>)
    /\ Pending("$pushAll", "events") = List(<<8>>)
RECURSIVE SumSeq(_)
SumSeq(xs) == IF xs = <<>> THEN 0 ELSE Head(xs) + SumSeq(Tail(xs))

\* the storage names the pending operators of the instance name
OperatorFields == UNION {DOMAIN ops[o] : o \in DOMAIN ops}

\* no field is named twice: under two operators, or dirty and under one
NoConflict ==
    /\ \A o1, o2 \in DOMAIN ops : o1 # o2 => DOMAIN ops[o1] \cap DOMAIN ops[o2] = {}
    /\ {long_to_short(key) : key \in dirty_fields} \cap OperatorFields = {}

\* the stored document before and after the step
StoredBefore == db[attributes["_id"].n]
StoredAfter == db'[attributes["_id"].n]

\* the save of this step applied what the instance had pending, and that only
SaveAppliesOwnChanges ==
    /\ last'.err = ""
    /\ \A k \in DOMAIN StoredBefore :
          (k \notin OperatorFields
             /\ k \notin {long_to_short(key) : key \in dirty_fields}) =>
                (k \in DOMAIN StoredAfter /\ StoredAfter[k] = StoredBefore[k])
    /\ \A key \in dirty_fields : StoredAfter[long_to_short(key)] = attributes[key]
    /\ \A k \in operand_fields(ops, "$inc") :
          StoredAfter[k] = Num(StoredBefore[k].n + SumSeq(ops["$inc"][k].items))
    /\ \A k \in operand_fields(ops, "$pushAll") :
          StoredAfter[k] = List(StoredBefore[k].items \o ops["$pushAll"][k].items)
    /\ \A k \in operand_fields(ops, "$addToSet") :
          StoredAfter[k] = List(add_each(StoredBefore[k].items,
                                         ops["$addToSet"][k].items))
    /\ \A k \in operand_fields(ops, "$pullAll") :
          StoredAfter[k] = List(pull_all(StoredBefore[k].items,
                                         ops["$pullAll"][k].items))

\* C30: with two instances of one identity saving in any order, a save whose
\* round trip the store serves leaves every stored field its instance did not
\* modify as it was, stores the instance's value of every field it modified,
\* whatever the other instance stored there before, and has the store apply
\* the instance's $inc, $addToSet, $pushAll and $pullAll to what is stored.
C30_SavesOfTwoInstancesMerge ==
    [][(last'.op = "save" /\ last'.store_ok /\ NoConflict) =>
          SaveAppliesOwnChanges]_vars
\* the entity types that have an instance
Instantiated == {population[i].type : i \in DOMAIN population}

\* C31: constructing or loading an instance leaves the resolution of the
\* short names of every entity type that has instances as it was, and in
\* every state short_to_long(long_to_short(k)) = k for every field k with a
\* short name of every entity type that has instances.
C31_SchemaIsReadOnly ==
    [][/\ \A type \in Instantiated : \A k \in DOMAIN field_map_of(type) :
             short_to_long_in(shared', long_to_short_of(type, k))
                = short_to_long_in(shared, long_to_short_of(type, k))
       /\ \A i \in DOMAIN population' :
             \A k \in DOMAIN field_map_of(population'[i].type) :
                short_to_long_in(shared', long_to_short_of(population'[i].type, k)) = k]_vars
\* C32: in every successful save the post_save hook runs before the
\* post_insert or post_update hook of that save.
C32_PostSaveRunsFirst ==
    (last.op = "save" /\ last.err = "") =>
       \E i, j \in DOMAIN last.trace :
          /\ i < j
          /\ last.trace[i] = "post_save"
          /\ last.trace[j] \in {"post_insert", "post_update"}

\* a save whose pre_save, pre_insert or pre_update hook changed the document
HookActed(hook, store_ok) == Save(hook, store_ok) /\ pre_hooks(Self, hook) # Self

\* C33: when a pre_ hook of a save gives name a value, that save does not
\* fail for a missing required field and the update it sends holds the value
\* under $set; when a pre_ hook enqueues an increment, the update the save
\* sends holds that increment as the last operand of $inc for the field.
C33_HookChangesAreSaved ==
    [][\A store_ok \in BOOLEAN :
          /\ \A hook \in {"fill", "fill_insert", "fill_update"} :
                HookActed(hook, store_ok) =>
                   /\ last'.err # RequiredError
                   /\ Len(last'.calls) = 1
                   /\ last'.calls[1].update["$set"]["n"] = Text("x")
          /\ (HookActed("count", store_ok) /\ last'.err \notin {RequiredError, "KeyError"}) =>
                /\ Len(last'.calls) = 1
                /\ "$inc" \in DOMAIN last'.calls[1].update
                /\ LET operand == last'.calls[1].update["$inc"]["seq"].items
                   IN  operand[Len(operand)] = 3]_vars

\* a document never saved with nothing pending, whose save sent name
C33_Witness ==
    /\ last.op = "save"
    /\ last.err = ""
    /\ last.pending = <<>>
    /\ db # EmptyMap
    /\ Len(last.calls) = 1
    /\ last.calls[1].update = [o \in {"$set"} |-> [n |-> Text("x")]]

\* C34: the query of the upsert a save issues is the identity the document
\* holds when the upsert is issued, and a new identity only if it holds none.
C34_QueryIsOwnIdentity ==
    (last.op = "save" /\ last.calls # <<>>) =>
       IF has_id(last.before) THEN last.calls[1].query = last.before.attributes["_id"]
       ELSE last.calls[1].query = ObjectId(nextOid - 1)
\* C35: after every save, successful or failed, either the dirty set and the
\* pending operations are empty and the attributes are the load of the
\* document the store returned (the attributes of before if no upsert was
\* issued), or attributes, dirty set and pending operations are those of the
\* moment before the upsert.
C35_NoPartialSave ==
    last.op = "save" =>
       \/ /\ dirty_fields = {}
          /\ ops = EmptyMap
          /\ attributes
               = IF last.calls = <<>> THEN last.before.attributes
                 ELSE load_dict(last.before, db[last.calls[1].query.n]).self.attributes
       \/ Self = last.before
\* C36: every mutating operation on the wrapper read from a mapping-typed or
\* set-typed field of a live document completes without error and leaves the
\* field dirty, the $set value of the field in operations() being the
\* collapsed form of the wrapper's contents after the mutation.
C36_ContainerMutationsAreTracked ==
    (alive /\ last.op \in DictMutators \cup SetMutators) =>
       /\ last.err = ""
       /\ last.key \in dirty_fields
       /\ operations(Self).doc["$set"][long_to_short(last.key)]
            = collapse(fcheck.field.field, fcheck.x)
\* C37: every token parsed is accepted by the parser of at most one kind of
\* TYPE_ORDER, and the list kind does not accept the empty-set token.
C37_ParseIsUnambiguous ==
    fcheck.op = "parsed" =>
       /\ Cardinality(Accepting(fcheck.token)) <= 1
       /\ fcheck.token = Token("set", <<>>) =>
             klass_parse("list", fcheck.token) = NoField
\* C38: after a set, unset or add_operation that raised, attributes, dirty
\* set and pending operations are those of before the call.
C38_FailedMutationChangesNothing ==
    (last.op \in {"set", "unset", "add_operation"} /\ last.err # "") =>
       Self = last.before
\* C39: in every reachable state every field of the dirty set has a value in
\* attributes, and operations() is computed without a lookup failure.
C39_DirtyFieldsHaveValues ==
    /\ dirty_fields \subseteq DOMAIN attributes
    /\ operations(Self).err = ""
\* the values returned for a sequence name, in the order of return
ReturnedFor(seq_name) ==
    LET OfName(r) == r.name = seq_name
    IN  SelectSeq(generator.returned, OfName)

\* C40: the calls of get_next_index for one sequence name, sequential or
\* concurrent, return 1, 2, 3, ... in the order the store applied them,
\* whatever calls are made for another name: no value is returned twice.
C40_SequenceValuesAreUnique ==
    \A seq_name \in SeqNames :
       \A i \in DOMAIN ReturnedFor(seq_name) : ReturnedFor(seq_name)[i].value = i
====
